---- MODULE Spec2Model ----
(***************************************************************************)
(* GitZipQR: encode (file -> encrypt -> chunk -> QR payloads) and decode   *)
(* (QR payloads -> assemble -> verify -> decrypt -> file).                 *)
(*                                                                         *)
(* Encoder: src/core/encode.ts, whose step 4 calibrates analytically, and  *)
(* src/unnamed/part_000, the same encoder with the empirical calibration.  *)
(* Decoder: src/unnamed/part_009 (the decoder whose collect / verify logic *)
(* src/core/manifest.ts repeats).                                          *)
(*                                                                         *)
(* Ideal primitives.  SHA-256, scrypt and AES-256-GCM are injective        *)
(* symbolic functions of their inputs.                                     *)
(*                                                                         *)
(* Buffers.  A buffer is the sequence of its runs; a run <<src, lo, hi>>   *)
(* stands for the bytes lo .. hi-1 of the byte source src:                 *)
(*    <<"enc", key, nonce, plain>>  the frame AES-256-GCM writes: the      *)
(*                                  keystream over plain, then the tag     *)
(*    <<"rnd", what, id>>           the bytes crypto.randomBytes returned  *)
(*    <<"x", src>>                  the bytes of src with one bit flipped  *)
(* A buffer is kept normal: no empty run, and two runs that continue each  *)
(* other are one run, so equal byte sequences are equal values.  File      *)
(* contents (plaintext) are sequences of byte values.  Text is a sequence  *)
(* of one-character strings; base64 text is a sequence of runs of base64   *)
(* characters <<<<"b64", src>>, lo, hi>>.                                  *)
(***************************************************************************)
EXTENDS Integers, Sequences, FiniteSets, TLC

(* ---------------------------- bounds ----------------------------------- *)
\* longest plaintext, in bytes
MaxPlainLen == 2
\* the chunking runs: longest plaintext, largest CHUNK_SIZE
MaxChunkPlain == 6
MaxChunk == 9
\* how many extra copies of a symbol the user may drop into the directory
MaxCopies == 1
\* the calibration runs: plaintexts of one and of several symbols, file
\* names of MidName and LongName letters and of CtlName control characters,
\* CHUNK_SIZE set below the floor and above every calibrated size
MidPlain == 600
BigPlain == 2000
MidName == 170
LongName == 200
CtlName == 230
SmallEnv == 100
LargeEnv == 3000
\* CHUNK_SIZE of the runs over file names
NameChunk == 10
LegacyChunk == 20
MaxTasks == 3
MaxFit == 3
TestBudget == 40
GrowStart == 2048
GrowCap == 4194304

(* ------------------------ program constants ---------------------------- *)
TagLen == 16
\* the least chunk size calibration chooses
ChunkFloor == 512
SaltLen == 16
NonceLen == 12
MinPasswordLen == 8
FRAGMENT_TYPE == "GitZipQR-CHUNK-ENC"
VERSION == "3.1-inline-only"
NUL == "NUL"

(* ------------------------- option values ------------------------------- *)
\* JavaScript null / undefined, and a present value
Null == <<>>
Some(x) == <<x>>
IsNull(o) == Len(o) = 0
Val(o) == o[1]

(* ---------------------------- numbers ---------------------------------- *)
Min(a, b) == IF a < b THEN a ELSE b

\* Math.ceil(a / b) for a >= 0, b >= 1
CeilDiv(a, b) == (a + b - 1) \div b

\* all orderings of the elements 1..n
Perms(n) == {f \in [1..n -> 1..n] : \A i, j \in 1..n : f[i] = f[j] => i = j}

(* ---------------------------- buffers ---------------------------------- *)
RunLen(r) == r[3] - r[2]

RECURSIVE BufLen(_)
\* buf.length
BufLen(buf) == IF Len(buf) = 0 THEN 0 ELSE RunLen(Head(buf)) + BufLen(Tail(buf))

\* x followed by y
Join(x, y) ==
    IF Len(x) = 0 THEN y
    ELSE IF Len(y) = 0 THEN x
    ELSE IF x[Len(x)][1] = y[1][1] /\ x[Len(x)][3] = y[1][2]
    THEN SubSeq(x, 1, Len(x) - 1) \o << <<y[1][1], x[Len(x)][2], y[1][3]>> >> \o Tail(y)
    ELSE x \o y

RECURSIVE Concat(_)
\* Buffer.concat(list)
Concat(list) == IF Len(list) = 0 THEN <<>> ELSE Join(Head(list), Concat(Tail(list)))

RECURSIVE Drop(_, _)
\* buf without its first n bytes
Drop(buf, n) ==
    IF n <= 0 \/ Len(buf) = 0 THEN buf
    ELSE IF n >= RunLen(Head(buf)) THEN Drop(Tail(buf), n - RunLen(Head(buf)))
    ELSE << <<buf[1][1], buf[1][2] + n, buf[1][3]>> >> \o Tail(buf)

RECURSIVE Take(_, _)
\* the first n bytes of buf
Take(buf, n) ==
    IF n <= 0 \/ Len(buf) = 0 THEN <<>>
    ELSE IF n >= RunLen(Head(buf)) THEN <<Head(buf)>> \o Take(Tail(buf), n - RunLen(Head(buf)))
    ELSE << <<buf[1][1], buf[1][2], buf[1][2] + n>> >>

\* buf.subarray(a, b) / fs.readSync of b - a bytes at offset a, 0 <= a
Slice(buf, a, b) == Take(Drop(buf, a), b - a)

(* ----------------------------- hashing --------------------------------- *)
\* crypto.createHash('sha256').update(x).digest('hex')
Sha256(x) == <<"sha256", x>>

(* ----------------------------- base64 ---------------------------------- *)
\* buf.toString('base64')
B64Encode(buf) ==
    [i \in 1..Len(buf) |-> << <<"b64", buf[i][1]>>, buf[i][2], buf[i][3] >>]

\* Buffer.from(str, 'base64'): characters outside the alphabet are skipped
B64Decode(str) ==
    Concat([i \in 1..Len(str) |->
              IF str[i][1][1] = "b64" THEN << <<str[i][1][2], str[i][2], str[i][3]>> >>
              ELSE <<>>])

(* --------------------------- passwords --------------------------------- *)
RECURSIVE JoinNul(_)
\* parts.join('\u0000')
JoinNul(parts) ==
    IF Len(parts) = 0 THEN <<>>
    ELSE IF Len(parts) = 1 THEN parts[1]
    ELSE parts[1] \o <<NUL>> \o JoinNul(Tail(parts))

(* ------------------------------ crypto --------------------------------- *)
\* crypto.scrypt(pass, salt, 32, {N, r, p})
Scrypt(pass, salt, kdf) == <<"key", pass, salt, kdf>>

EncSrc(key, nonce, plain) == <<"enc", key, nonce, plain>>

\* cipher.update: the AES-256-GCM keystream over the plaintext
GcmBody(key, nonce, plain) ==
    IF Len(plain) = 0 THEN <<>>
    ELSE << <<EncSrc(key, nonce, plain), 0, Len(plain)>> >>

\* body is what the cipher writes for some plaintext under key and nonce
IsBodyOf(key, nonce, body) ==
    \/ Len(body) = 0
    \/ /\ Len(body) = 1
       /\ body[1][1][1] = "enc"
       /\ body[1][1][2] = key
       /\ body[1][1][3] = nonce
       /\ body[1][2] = 0
       /\ body[1][3] = Len(body[1][1][4])

\* decipher.update: the keystream removed
GcmPlain(body) == IF Len(body) = 0 THEN <<>> ELSE body[1][1][4]

\* cipher.getAuthTag(): the 16 bytes that authenticate body under key and
\* nonce; no tag the cipher ever wrote authenticates another body
GcmTag(key, nonce, body) ==
    IF IsBodyOf(key, nonce, body)
    THEN << <<EncSrc(key, nonce, GcmPlain(body)), BufLen(body), BufLen(body) + TagLen>> >>
    ELSE << << <<"forged">>, 0, TagLen >> >>

\* the ciphertext frame payload.enc: the body, then the tag appended
EncryptFrame(key, nonce, plain) ==
    Join(GcmBody(key, nonce, plain), GcmTag(key, nonce, GcmBody(key, nonce, plain)))

\* a decipher that accepts any tag
GcmVerify_anyTag(key, nonce, body, tag) == TRUE

\* decipher.final() does not throw: tag authenticates body under key, nonce
GcmVerify(key, nonce, body, tag) == tag = GcmTag(key, nonce, body)

(* ------------------------- JavaScript objects -------------------------- *)
\* An object is the sequence of its <<key, value>> pairs in insertion order.
ObjHas(o, k) == \E i \in 1..Len(o) : o[i][1] = k
ObjGet(o, k) == o[CHOOSE i \in 1..Len(o) : o[i][1] = k][2]

\* o[k] = v: an existing key keeps its place, a new key goes last
ObjSet(o, k, v) ==
    IF ObjHas(o, k)
    THEN [i \in 1..Len(o) |-> IF o[i][1] = k THEN <<k, v>> ELSE o[i]]
    ELSE Append(o, <<k, v>>)

RECURSIVE ObjSpread(_, _)
\* { ...a, ...b }
ObjSpread(a, b) ==
    IF Len(b) = 0 THEN a
    ELSE ObjSpread(ObjSet(a, b[1][1], b[1][2]), Tail(b))

\* JSON.stringify(o): key, value, key, value, ... in the object's key order
Stringify(o) ==
    [j \in 1..(2 * Len(o)) |-> IF j % 2 = 1 THEN o[(j + 1) \div 2][1]
                                             ELSE o[j \div 2][2]]

\* JSON.parse(text): the object read back, pair by pair
ParseJson(text) ==
    ObjSpread(<<>>, [i \in 1..(Len(text) \div 2) |-> <<text[2 * i - 1], text[2 * i]>>])

(* ------------------------------ paths ---------------------------------- *)
DotsOf(base) == {i \in 1..Len(base) : base[i] = "."}
LastOf(S) == CHOOSE m \in S : \A n \in S : n <= m

\* path.extname(base): from the last dot, unless that dot starts the name
ExtName(base) ==
    IF DotsOf(base) = {} \/ LastOf(DotsOf(base)) = 1 \/ base = <<".", ".">>
    THEN <<>>
    ELSE SubSeq(base, LastOf(DotsOf(base)), Len(base))

\* path.basename(base, ext): the suffix ext removed
BaseNameNoExt(base, ext) ==
    IF Len(ext) > 0 /\ Len(base) > Len(ext)
       /\ SubSeq(base, Len(base) - Len(ext) + 1, Len(base)) = ext
    THEN SubSeq(base, 1, Len(base) - Len(ext))
    ELSE base

(* ------------------------ magic-number detection ----------------------- *)
MagicPng == <<137, 80, 78, 71, 13, 10, 26, 10>>
MagicJpg == <<255, 216, 255>>
MagicGif == <<71, 73, 70, 56>>
MagicPdf == <<37, 80, 68, 70>>
MagicZip == <<80, 75, 3, 4>>
HeadLen == 16

\* readHead(filePath, 16): the first 16 bytes, zero-filled past the end
ReadHead(data) ==
    [i \in 1..HeadLen |-> IF i <= Len(data) THEN data[i] ELSE 0]

StartsWith(vals, magic) ==
    Len(vals) >= Len(magic) /\ SubSeq(vals, 1, Len(magic)) = magic

\* detectExtByMagic(buf)
detectExtByMagic(vals) ==
    IF Len(vals) < 4 THEN <<>>
    ELSE IF StartsWith(vals, MagicPng) THEN <<".", "p", "n", "g">>
    ELSE IF StartsWith(vals, MagicJpg) THEN <<".", "j", "p", "g">>
    ELSE IF StartsWith(vals, MagicGif) THEN <<".", "g", "i", "f">>
    ELSE IF StartsWith(vals, MagicPdf) THEN <<".", "p", "d", "f">>
    ELSE IF StartsWith(vals, MagicZip) THEN <<".", "z", "i", "p">>
    ELSE <<>>

(* --------------------- encode: names and metadata ---------------------- *)
DotZip == <<".", "z", "i", "p">>

\* originalExt
OriginalExt(s) == IF s.kind = "dir" THEN <<>> ELSE ExtName(s.base)

\* nameBase: the name without its extension
NameBaseOf(s) ==
    IF s.kind = "dir" THEN s.base
    ELSE IF Len(OriginalExt(s)) > 0 THEN BaseNameNoExt(s.base, OriginalExt(s))
    ELSE s.base

\* metaExt: ".zip" for a directory, else the extension or the detected one
MetaExtOf(s) ==
    IF s.kind = "dir" THEN DotZip
    ELSE IF Len(OriginalExt(s)) > 0 THEN OriginalExt(s)
    ELSE detectExtByMagic(ReadHead(s.data))

\* SCRYPT: N, r, p
ScryptParams == <<32768, 8, 4>>

\* ''.padStart(64, '0')
ZeroHash == <<"zeros">>

\* fileId: 16 hex characters of sha256(nameBase + ':' + cipherSha256)
FileIdOf(name, cipherSha) == <<"id", name, cipherSha>>

\* baseMeta
BaseMeta(name, ext, frame, salt, nonce) ==
    << <<"type", FRAGMENT_TYPE>>,
       <<"version", VERSION>>,
       <<"fileId", FileIdOf(name, Sha256(frame))>>,
       <<"name", name>>,
       <<"ext", ext>>,
       <<"chunk", 0>>,
       <<"total", 1>>,
       <<"hash", ZeroHash>>,
       <<"cipherHash", Sha256(frame)>>,
       <<"kdfParams", ScryptParams>>,
       <<"saltB64", B64Encode(salt)>>,
       <<"nonceB64", B64Encode(nonce)>>,
       <<"chunkSize", 0>> >>

(* ------------------------- encode: chunking ---------------------------- *)
\* a count rounded down
TotalChunks_floor(size, cs) == size \div cs

\* totalChunks
TotalChunks(size, cs) == CeilDiv(size, cs)

\* the bytes of chunk i (0-based): frame[start, end)
ChunkBytes(frame, cs, i) == Slice(frame, i * cs, Min(i * cs + cs, BufLen(frame)))

\* a payload that records the length of its own chunk as chunkSize
ChunkPayload_ownSize(meta, frame, cs, i) ==
    ObjSpread(meta,
        << <<"chunk", i>>,
           <<"total", TotalChunks(BufLen(frame), cs)>>,
           <<"hash", Sha256(ChunkBytes(frame, cs, i))>>,
           <<"chunkSize", BufLen(ChunkBytes(frame, cs, i))>>,
           <<"dataB64", B64Encode(ChunkBytes(frame, cs, i))>> >>)

\* the payload of chunk i
ChunkPayload(meta, frame, cs, i) ==
    ObjSpread(meta,
        << <<"chunk", i>>,
           <<"total", TotalChunks(BufLen(frame), cs)>>,
           <<"hash", Sha256(ChunkBytes(frame, cs, i))>>,
           <<"dataB64", B64Encode(ChunkBytes(frame, cs, i))>> >>)

\* tasks: one { outPath: qr-<i>.png, text } per chunk, in index order
ChunkTasks(meta, frame, cs) ==
    [k \in 1..TotalChunks(BufLen(frame), cs) |->
        [outPath |-> k - 1, text |-> Stringify(ChunkPayload(meta, frame, cs, k - 1))]]

\* the keys of the payload literal of the empirical encoder, in its order
LiteralKeys ==
    <<"type", "version", "fileId", "name", "ext", "chunk", "total", "hash",
      "cipherHash", "dataB64", "kdfParams", "saltB64", "nonceB64", "chunkSize">>

\* the payload of chunk i written as that literal: the same values
LiteralPayload(meta, frame, cs, i) ==
    [j \in 1..Len(LiteralKeys) |->
        <<LiteralKeys[j], ObjGet(ChunkPayload(meta, frame, cs, i), LiteralKeys[j])>>]

\* the tasks of the empirical encoder
LiteralTasks(meta, frame, cs) ==
    [k \in 1..TotalChunks(BufLen(frame), cs) |->
        [outPath |-> k - 1, text |-> Stringify(LiteralPayload(meta, frame, cs, k - 1))]]

(* ----------------------- encode: payload size -------------------------- *)
RECURSIVE Digits(_)
\* the number of characters of String(n), n >= 0
Digits(n) == IF n < 10 THEN 1 ELSE 1 + Digits(n \div 10)

\* a character JSON.stringify writes as \u00XX
CTL == "CTL"

\* the UTF-8 bytes of a string inside JSON text, without its quotes: six
\* for an escaped character, one for any other
TextBytes(str) == Len(str) + 5 * Cardinality({i \in 1..Len(str) : str[i] = CTL})

\* the characters of the base64 text str: 4 for every 3 bytes it encodes
B64Chars(str) == 4 * CeilDiv(BufLen(str), 3)

\* the characters of a payload key
KeyBytes(k) ==
    CASE k = "type" -> 4 [] k = "version" -> 7 [] k = "fileId" -> 6
      [] k = "name" -> 4 [] k = "ext" -> 3 [] k = "chunk" -> 5
      [] k = "total" -> 5 [] k = "hash" -> 4 [] k = "cipherHash" -> 10
      [] k = "kdfParams" -> 9 [] k = "saltB64" -> 7 [] k = "nonceB64" -> 8
      [] k = "chunkSize" -> 9 [] k = "dataB64" -> 7

\* the bytes of the value of key k in JSON text: numbers in decimal,
\* strings in quotes, hex digests of 64 and fileId of 16 characters,
\* kdfParams as {"N":..,"r":..,"p":..}
ValueBytes(k, v) ==
    CASE k \in {"chunk", "total", "chunkSize"} -> Digits(v)
      [] k \in {"name", "ext"} -> 2 + TextBytes(v)
      [] k = "type" -> 2 + 18
      [] k = "version" -> 2 + 15
      [] k = "fileId" -> 2 + 16
      [] k \in {"hash", "cipherHash"} -> 2 + 64
      [] k = "kdfParams" -> 16 + Digits(v[1]) + Digits(v[2]) + Digits(v[3])
      [] k \in {"saltB64", "nonceB64", "dataB64"} -> 2 + B64Chars(v)

RECURSIVE PairsBytes(_)
\* "key":value of every pair
PairsBytes(o) ==
    IF Len(o) = 0 THEN 0
    ELSE 2 + KeyBytes(o[1][1]) + 1 + ValueBytes(o[1][1], o[1][2]) + PairsBytes(Tail(o))

\* Buffer.byteLength(JSON.stringify(o), 'utf8'): braces, pairs, commas
JsonBytes(o) == 2 + PairsBytes(o) + (IF Len(o) = 0 THEN 0 ELSE Len(o) - 1)

\* CAPACITY[ECL] || CAPACITY.Q: bytes of a version-40 symbol
CapacityOf(e) ==
    CASE e = "L" -> 2953 [] e = "M" -> 2331 [] e = "H" -> 1273 [] OTHER -> 1663

\* overhead: the payload with chunk 0, total 1, chunkSize 0 and no data
Overhead(meta) == JsonBytes(ObjSpread(meta, << <<"dataB64", <<>> >> >>))

\* maxDataB64
MaxDataB64(meta, e) == CapacityOf(e) - Overhead(meta)

\* test(n): qrcode.toString renders the payload with n characters of data;
\* the text fits when its bytes do not exceed the capacity of the ECL
TestFits(meta, e, n) == Overhead(meta) + n <= CapacityOf(e)

RECURSIVE Grow(_, _, _, _)
\* while (await test(hi)) { lo = hi; hi *= 2; if (hi > 1 << 22) break; }
Grow(meta, e, lo, hi) ==
    IF TestFits(meta, e, hi)
    THEN IF 2 * hi > 4194304 THEN <<hi, 2 * hi>> ELSE Grow(meta, e, hi, 2 * hi)
    ELSE <<lo, hi>>

RECURSIVE BinSearch(_, _, _, _)
\* while (lo < hi) { mid = floor((lo + hi + 1) / 2); test(mid) ? lo = mid : hi = mid - 1 }
BinSearch(meta, e, lo, hi) ==
    IF lo < hi
    THEN IF TestFits(meta, e, (lo + hi + 1) \div 2)
         THEN BinSearch(meta, e, (lo + hi + 1) \div 2, hi)
         ELSE BinSearch(meta, e, lo, (lo + hi + 1) \div 2 - 1)
    ELSE lo

\* calibrateMaxDataB64: lo = 1, hi = 2048, grow, search, Math.floor(lo * 0.92);
\* the double product floors to 23 * lo div 25 for every lo the search yields
calibrateMaxDataB64(meta, e) ==
    (BinSearch(meta, e, Grow(meta, e, 1, 2048)[1], Grow(meta, e, 1, 2048)[2]) * 23) \div 25

\* a calibrated size without the floor
idealChunk_noFloor(m) == (m * 147) \div 200

\* idealChunk = Math.max(512, Math.floor(maxDataB64 * 3 / 4 * 0.98)); the
\* double product floors to the integer quotient for every maxDataB64 <= 3000
idealChunk(m) == IF (m * 147) \div 200 > ChunkFloor THEN (m * 147) \div 200 ELSE ChunkFloor

\* CHUNK_SIZE = parseInt(process.env.CHUNK_SIZE || String(idealChunk), 10)
ChunkSizeOf(env, m) == IF IsNull(env) THEN idealChunk(m) ELSE Val(env)

(* ============================ the inputs =============================== *)
Rep(c, n) == [i \in 1..n |-> c]
PwA == Rep("a", MinPasswordLen)
PwB == Rep("b", MinPasswordLen)
\* one character short of the minimum
PwShort == Rep("a", MinPasswordLen - 1)
\* a single password that contains a NUL
PwAB == PwA \o <<NUL>> \o PwB

\* the plaintext of length k
Plain(k) == [i \in 1..k |-> i % 2]

FileNames == { <<"a", ".", "t">>, <<"b">> }
DirName == <<"d">>
\* the archive archiver writes for the directory
ZipBytes == MagicZip

Sources ==
    {[kind |-> "file", base |-> n, data |-> Plain(k)] :
        n \in FileNames, k \in {0, MaxPlainLen}}
    \cup {[kind |-> "dir", base |-> DirName, data |-> ZipBytes]}
    \cup {[kind |-> "missing", base |-> DirName, data |-> <<>>]}

\* encode(inputPath, outputDir, passwords): the passwords argument, and what
\* is typed at the prompt when the argument is absent
EncodeCalls ==
    {[passwords |-> p, tty |-> <<>>] : p \in { <<PwA>>, <<PwA, PwB>> }}
    \cup {[passwords |-> <<>>, tty |-> t] : t \in { <<PwB>>, <<PwShort>> }}

\* what may be typed at the decoder's password prompt
DecodeTty == { <<PwA>>, <<PwA, PwB>>, <<PwB>>, <<PwAB>>, <<PwShort>> }

\* process.env.CHUNK_SIZE in the pipeline runs
ChunkEnvs == {7, 10, 20}

\* CHUNK_SIZE of the sessions found in a directory the encoder did not fill:
\* an 18-byte frame in 3 and in 2 chunks, a 17-byte frame in 2
AdvChunk3 == 7
AdvChunk2 == 10
AdvChunkB == 9

\* crypto.randomBytes: the salt and the nonce of session id
RandomIds == {1}
SaltOf(id) == << << <<"rnd", "salt", id>>, 0, SaltLen >> >>
NonceOf(id) == << << <<"rnd", "nonce", id>>, 0, NonceLen >> >>

\* MAX_WORKERS = max(1, QR_WORKERS)
Workers == 2

(* ============================== the state ============================== *)
VARIABLES
    src,        \* the source handed to encode
    call,       \* encode's passwords argument and prompt input
    chunkEnv,   \* process.env.CHUNK_SIZE: unset, or a number
    ecl,        \* process.env.QR_ECL
    calibrator, \* which encoder runs: the analytical or the empirical one
    decArgs,    \* decode(inputPath, outputDir, passwords): the passwords argument
    legacy,     \* decode's inputPath: Null for the directory dir, or one fragment file
    encPool,    \* runPool(tasks), event by event: i, active, ok, fail, the workers
    decPool,    \* runDecodePool(images), event by event: i, active, results, the workers
    cal,        \* calibrateMaxDataB64 on a fit predicate, test by test: lo, hi
    enc,        \* encode's locals and position
    encOut,     \* encode's stdout: <<"start", n>> and <<"done", 0 | 1>>
    dir,        \* the images in the decoder's input directory
    copies,     \* how many copies the user has added to dir
    listing,    \* fs.readdirSync(input): dir in enumeration order
    pool,       \* runDecodePool: i, active, results
    dec,        \* decode's locals and position
    decOut,     \* decode's stdout
    outFiles    \* files written to the output directory

vars == <<src, call, chunkEnv, ecl, calibrator, decArgs, legacy, encPool, decPool, cal, enc, encOut, dir, copies, listing, pool, dec, decOut, outFiles>>

stepStart(out, n) == Append(out, <<"start", n>>)
stepDone(out, ok) == Append(out, <<"done", IF ok THEN 1 ELSE 0>>)

Enc0 ==
    [pc |-> "s1", passphrase |-> <<>>, tmpRoot |-> FALSE, nameBase |-> <<>>,
     metaExt |-> <<>>, data |-> <<>>, salt |-> <<>>, nonce |-> <<>>,
     frame |-> <<>>, baseMeta |-> <<>>, maxDataB64 |-> 0, chunkSize |-> 0,
     tasks |-> <<>>,
     fail |-> 0, result |-> Null]

Dec0 ==
    [pc |-> "idle", exit |-> "none", err |-> Null,
     nameBase |-> Null, metaExt |-> Null, cipherSha256 |-> Null,
     expectedTotal |-> Null, kdf |-> Null, salt |-> Null, nonce |-> Null,
     acc |-> <<>>, chunks |-> <<>>, encBuffer |-> <<>>, typed |-> Null]

Pool0 == [i |-> 0, active |-> {}, results |-> <<>>]

\* calibrateMaxDataB64 before it is called.  limit: the largest n for which
\* test(n) is true; passed: the n for which test has returned true; tests:
\* the calls of test so far
CalOff ==
    [pc |-> "off", limit |-> 0, lo |-> 0, hi |-> 0, passed |-> {}, tests |-> 0,
     result |-> 0]

\* a pool before it is called.  on: the pool function has been called; W:
\* MAX_WORKERS; total: tasks.length; launched[k]: how often task k was
\* handed to a Worker; ev[k]: the events worker k has raised so far;
\* resolves: how often resolve was called; value: what the promise holds
PoolOff ==
    [on |-> FALSE, W |-> 1, total |-> 0, i |-> 0, active |-> 0, ok |-> 0, fail |-> 0,
     launched |-> <<>>, ev |-> <<>>, results |-> <<>>, resolves |-> 0, value |-> Null]

Init ==
    /\ src \in Sources
    /\ call \in EncodeCalls
    /\ chunkEnv \in {Some(c) : c \in ChunkEnvs}
    /\ ecl = "Q"
    /\ calibrator = "analytical"
    /\ decArgs = <<>>
    /\ legacy = Null
    /\ encPool = PoolOff /\ decPool = PoolOff
    /\ cal = CalOff
    /\ enc = Enc0
    /\ encOut = <<>>
    /\ dir = <<>>
    /\ copies = 0
    /\ listing = <<>>
    /\ pool = Pool0
    /\ dec = Dec0
    /\ decOut = <<>>
    /\ outFiles = {}

decVars == <<dir, copies, listing, pool, dec, decOut, outFiles>>
\* what the steps of encode and decode leave alone
cfgVars == <<src, call, chunkEnv, ecl, calibrator, decArgs, legacy, cal>>
inVars == <<cfgVars, encPool, decPool>>

(* ============================== encode ================================= *)
\* promptPasswords: every password typed has at least 8 characters
PromptOk(typed) == \A i \in 1..Len(typed) : Len(typed[i]) >= MinPasswordLen

\* STEP 1: password
EncStep1 ==
    /\ enc.pc = "s1"
    /\ IF Len(call.passwords) > 0
       THEN /\ enc' = [enc EXCEPT !.pc = "s2", !.passphrase = JoinNul(call.passwords)]
            /\ encOut' = stepDone(stepStart(encOut, 1), TRUE)
       ELSE IF PromptOk(call.tty)
       THEN /\ enc' = [enc EXCEPT !.pc = "s2", !.passphrase = JoinNul(call.tty)]
            /\ encOut' = stepDone(stepStart(encOut, 1), TRUE)
       ELSE /\ enc' = [enc EXCEPT !.pc = "threw"]
            /\ encOut' = stepDone(stepStart(encOut, 1), FALSE)
    /\ UNCHANGED <<inVars, decVars>>

\* STEP 2: prepare data (mkdtemp, stat, archive a directory or copy a file)
EncStep2 ==
    /\ enc.pc = "s2"
    /\ IF src.kind = "missing"
       THEN \* fs.statSync throws: no stepDone
            /\ enc' = [enc EXCEPT !.pc = "threw", !.tmpRoot = TRUE]
            /\ encOut' = stepStart(encOut, 2)
       ELSE /\ enc' = [enc EXCEPT !.pc = "s3", !.tmpRoot = TRUE,
                                  !.nameBase = NameBaseOf(src),
                                  !.metaExt = MetaExtOf(src),
                                  !.data = src.data]
            /\ encOut' = stepDone(stepStart(encOut, 2), TRUE)
    /\ UNCHANGED <<inVars, decVars>>

\* STEP 3: encrypt (scrypt, AES-256-GCM, tag appended to payload.enc)
EncStep3 ==
    /\ enc.pc = "s3"
    /\ \E id \in RandomIds :
          enc' = [enc EXCEPT !.pc = "s4", !.salt = SaltOf(id), !.nonce = NonceOf(id),
                     !.frame = EncryptFrame(Scrypt(enc.passphrase, SaltOf(id), ScryptParams),
                                            NonceOf(id), enc.data)]
    /\ encOut' = stepDone(stepStart(encOut, 3), TRUE)
    /\ UNCHANGED <<inVars, decVars>>

\* STEP 4: calibrate capacity: baseMeta, maxDataB64 (the analytical encoder
\* throws when it is not positive, the empirical one returns what its search
\* yields); then CHUNK_SIZE from the environment or from the calibration
EncStep4 ==
    /\ enc.pc = "s4"
    /\ LET meta == BaseMeta(enc.nameBase, enc.metaExt, enc.frame, enc.salt, enc.nonce)
           m == IF calibrator = "empirical" THEN calibrateMaxDataB64(meta, ecl)
                ELSE MaxDataB64(meta, ecl)
       IN  IF calibrator # "empirical" /\ m <= 0
           THEN /\ enc' = [enc EXCEPT !.pc = "threw", !.baseMeta = meta,
                                      !.maxDataB64 = m]
                /\ encOut' = stepDone(stepStart(encOut, 4), FALSE)
           ELSE /\ enc' = [enc EXCEPT !.pc = "s5", !.maxDataB64 = m,
                              !.chunkSize = ChunkSizeOf(chunkEnv, m),
                              !.baseMeta = ObjSet(meta, "chunkSize", ChunkSizeOf(chunkEnv, m))]
                /\ encOut' = stepDone(stepStart(encOut, 4), TRUE)
    /\ UNCHANGED <<inVars, decVars>>

\* STEP 5: chunk & queue
EncStep5 ==
    /\ enc.pc = "s5"
    /\ enc' = [enc EXCEPT !.pc = "s6",
                  !.tasks = IF calibrator = "empirical"
                            THEN LiteralTasks(enc.baseMeta, enc.frame, enc.chunkSize)
                            ELSE ChunkTasks(enc.baseMeta, enc.frame, enc.chunkSize)]
    /\ encOut' = stepDone(stepStart(encOut, 5), TRUE)
    /\ UNCHANGED <<inVars, decVars>>

\* the image qr-<outPath>.png a worker writes for a task
ImageOf(task) == [qr |-> TRUE, text |-> task.text]

RECURSIVE Written(_, _, _)
\* the images in qrDir after the pool: those of the tasks k.. that did not fail
Written(tasks, failed, k) ==
    IF k > Len(tasks) THEN <<>>
    ELSE (IF k \in failed THEN <<>> ELSE <<ImageOf(tasks[k])>>)
         \o Written(tasks, failed, k + 1)

\* a step 6 that goes on to the summary whatever the pool reports
EncStep6_goesOn ==
    /\ enc.pc = "s6"
    /\ \E failed \in SUBSET (1..Len(enc.tasks)) :
          /\ dir' = Written(enc.tasks, failed, 1)
          /\ enc' = [enc EXCEPT !.pc = "s7", !.fail = Cardinality(failed)]
          /\ encOut' = stepDone(stepStart(encOut, 6), failed = {})
    /\ UNCHANGED <<inVars, copies, listing, pool, dec, decOut, outFiles>>

\* STEP 6: encode QR in parallel.  Each worker writes its image or fails;
\* failed is the set of tasks whose worker reported { ok: false }.
EncStep6 ==
    /\ enc.pc = "s6"
    /\ \E failed \in SUBSET (1..Len(enc.tasks)) :
          /\ dir' = Written(enc.tasks, failed, 1)
          /\ enc' = [enc EXCEPT !.pc = IF failed = {} THEN "s7" ELSE "threw",
                                !.fail = Cardinality(failed)]
          /\ encOut' = stepDone(stepStart(encOut, 6), failed = {})
    /\ UNCHANGED <<inVars, copies, listing, pool, dec, decOut, outFiles>>

\* STEP 7: summary (Done., FileID, Chunks), return { qrDir, fileId,
\* totalChunks, nameBase, metaExt }
EncStep7 ==
    /\ enc.pc = "s7"
    /\ enc' = [enc EXCEPT !.pc = "done",
                  !.result = Some([fileId |-> ObjGet(enc.baseMeta, "fileId"),
                                   totalChunks |-> Len(enc.tasks),
                                   nameBase |-> enc.nameBase,
                                   metaExt |-> enc.metaExt])]
    /\ encOut' = Append(encOut, <<"summary", Len(enc.tasks)>>)
    /\ UNCHANGED <<inVars, decVars>>

(* ========================= between the two runs ======================== *)
\* the user copies image k of the directory under another name
CopyImage(k) ==
    /\ enc.pc = "done"
    /\ dec.pc = "idle"
    /\ copies < MaxCopies
    /\ k \in 1..Len(dir)
    /\ dir' = Append(dir, dir[k])
    /\ copies' = copies + 1
    /\ UNCHANGED <<inVars, enc, encOut, listing, pool, dec, decOut, outFiles>>

(* ============================== decode ================================= *)
\* JSON.parse(text) does not throw: the text is key, value, key, value ...
IsJson(text) == Len(text) % 2 = 0

\* qrdecode.worker: { ok: true, payload } for an image in which a symbol is
\* detected and whose text parses, { ok: false } otherwise
WorkerResult(img) ==
    IF img.qr /\ IsJson(img.text) THEN [ok |-> TRUE, payload |-> ParseJson(img.text)]
    ELSE [ok |-> FALSE, payload |-> <<>>]

\* a filter that does not look at the type
IsChunkPayload_anyType(m) ==
    /\ ObjHas(m, "chunk")
    /\ ObjHas(m, "total")

\* m.type === FRAGMENT_TYPE && typeof m.chunk === 'number' && typeof m.total === 'number'
IsChunkPayload(m) ==
    /\ ObjHas(m, "type") /\ ObjGet(m, "type") = FRAGMENT_TYPE
    /\ ObjHas(m, "chunk")
    /\ ObjHas(m, "total")

\* m.k is truthy, for a field k that holds a string
Truthy(m, k) == ObjHas(m, k) /\ Len(ObjGet(m, k)) > 0

\* acc: the Map key -> parts in insertion order, key = `${fileId}:${chunk}`
AccKey(m) == <<IF ObjHas(m, "fileId") THEN Some(ObjGet(m, "fileId")) ELSE Null,
               ObjGet(m, "chunk")>>
AccHas(acc, key) == \E i \in 1..Len(acc) : acc[i].key = key

\* an acc that appends the data of a second payload with the same key
AccPut_append(acc, key, dataB64) ==
    IF AccHas(acc, key)
    THEN [i \in 1..Len(acc) |->
            IF acc[i].key = key THEN [acc[i] EXCEPT !.parts = @ \o dataB64] ELSE acc[i]]
    ELSE Append(acc, [key |-> key, parts |-> dataB64])

\* entry.parts[0] = m.dataB64 (a payload carries no part / partTotal)
AccPut(acc, key, dataB64) ==
    IF AccHas(acc, key)
    THEN [i \in 1..Len(acc) |->
            IF acc[i].key = key THEN [acc[i] EXCEPT !.parts = dataB64] ELSE acc[i]]
    ELSE Append(acc, [key |-> key, parts |-> dataB64])

\* !x for a memoized string (null or '')
NoText(o) == IsNull(o) \/ Len(Val(o)) = 0

\* one iteration of the loop over results
CollectOne(st, r) ==
    IF ~r.ok THEN st
    ELSE IF ~IsChunkPayload(r.payload) THEN st
    ELSE IF ~Truthy(r.payload, "dataB64") THEN st
    ELSE LET m == r.payload IN
      [st EXCEPT
        !.acc = AccPut(st.acc, AccKey(m), ObjGet(m, "dataB64")),
        !.nameBase = IF NoText(st.nameBase) /\ Truthy(m, "name")
                     THEN Some(ObjGet(m, "name")) ELSE @,
        !.metaExt = IF NoText(st.metaExt) /\ ObjHas(m, "ext")
                    THEN Some(ObjGet(m, "ext")) ELSE @,
        !.cipherSha256 = IF IsNull(st.cipherSha256) /\ ObjHas(m, "cipherHash")
                         THEN Some(ObjGet(m, "cipherHash")) ELSE @,
        !.kdf = IF IsNull(st.kdf) /\ ObjHas(m, "kdfParams")
                THEN Some(ObjGet(m, "kdfParams")) ELSE @,
        !.salt = IF IsNull(st.salt) /\ Truthy(m, "saltB64")
                 THEN Some(B64Decode(ObjGet(m, "saltB64"))) ELSE @,
        !.nonce = IF IsNull(st.nonce) /\ Truthy(m, "nonceB64")
                  THEN Some(B64Decode(ObjGet(m, "nonceB64"))) ELSE @,
        !.expectedTotal = IF IsNull(st.expectedTotal) \/ Val(st.expectedTotal) = 0
                          THEN Some(ObjGet(m, "total")) ELSE @]

RECURSIVE CollectAll(_, _)
\* for (const r of results) ...
CollectAll(st, results) ==
    IF Len(results) = 0 THEN st
    ELSE CollectAll(CollectOne(st, Head(results)), Tail(results))

RECURSIVE FillChunks(_, _)
\* for (const [key, entry] of acc.entries()) chunks[chunkIndex] = buf
FillChunks(chunks, acc) ==
    IF Len(acc) = 0 THEN chunks
    ELSE FillChunks((Head(acc).key[2] :> B64Decode(Head(acc).parts)) @@ chunks,
                    Tail(acc))

\* the array holds an element at every index below its length
NoHoles(chunks) ==
    \A i \in DOMAIN chunks : \A j \in 0..i : j \in DOMAIN chunks

\* a concat that takes the array from its end
ConcatChunks_reversed(chunks) ==
    Concat([k \in 1..Cardinality(DOMAIN chunks) |-> chunks[Cardinality(DOMAIN chunks) - k]])

\* Buffer.concat(chunks) for an array without holes
ConcatChunks(chunks) ==
    Concat([k \in 1..Cardinality(DOMAIN chunks) |-> chunks[k - 1]])

\* launch(): start workers while active < MAX_WORKERS and images remain
Launch(p, n) ==
    LET last == Min(n, p.i + (Workers - Cardinality(p.active)))
    IN  [p EXCEPT !.i = last, !.active = p.active \cup ((p.i + 1)..last)]

\* an exit that lets decode go on to its last step
Exit1_goesOn(d, err) == [d EXCEPT !.pc = "s4", !.err = err]

\* process.exit(1) after console.error(err)
Exit1(d, err) == [d EXCEPT !.pc = "exited", !.exit = "exit1", !.err = err]
\* an exception leaves decode: the promise rejects
Threw(d, err) == [d EXCEPT !.pc = "exited", !.exit = "threw", !.err = err]

\* isImageFile(f): the entries of dir that are pictures carry qr and text;
\* any other file carries its name and its JSON content
IsImageFile(f) == "qr" \in DOMAIN f

\* STEP 1, first half: list the directory and start the pool
DecStart ==
    /\ dec.pc = "idle"
    /\ enc.pc \in {"done", "none"}
    /\ IsNull(legacy)
    /\ LET imgs == SelectSeq(dir, IsImageFile) IN
       /\ \E perm \in Perms(Len(imgs)) :
             listing' = [k \in 1..Len(imgs) |-> imgs[perm[k]]]
       /\ IF Len(imgs) = 0
          THEN /\ dec' = Exit1(dec, <<"Directory has no QR images.">>)
               /\ decOut' = stepDone(stepStart(decOut, 1), FALSE)
               /\ pool' = pool
          ELSE /\ dec' = [dec EXCEPT !.pc = "pool"]
               /\ decOut' = stepStart(decOut, 1)
               /\ pool' = Launch([Pool0 EXCEPT !.results = [k \in 1..Len(imgs) |-> Null]],
                                 Len(imgs))
    /\ UNCHANGED <<inVars, enc, encOut, dir, copies, outFiles>>

\* w.once('message'): worker idx posts its result
WorkerMessage(idx) ==
    /\ dec.pc = "pool"
    /\ idx \in pool.active
    /\ LET p == [pool EXCEPT !.active = @ \ {idx},
                             !.results[idx] = Some(WorkerResult(listing[idx]))]
       IN  IF p.i < Len(listing)
           THEN /\ pool' = Launch(p, Len(listing))
                /\ dec' = dec
           ELSE /\ pool' = p
                /\ dec' = IF p.active = {} THEN [dec EXCEPT !.pc = "collect"] ELSE dec
    /\ UNCHANGED <<inVars, enc, encOut, dir, copies, listing, decOut, outFiles>>

\* STEP 1, second half: the loop over the results, then the chunk array
DecCollect ==
    /\ dec.pc = "collect"
    /\ LET st == CollectAll(dec, [k \in 1..Len(pool.results) |-> Val(pool.results[k])])
       IN  IF Len(st.acc) > 0
           THEN /\ dec' = [st EXCEPT !.pc = "s2", !.chunks = FillChunks(<<>>, st.acc)]
                /\ decOut' = stepDone(decOut, TRUE)
           ELSE /\ dec' = Exit1(st, <<"No inline QR data detected in images.">>)
                /\ decOut' = stepDone(decOut, FALSE)
    /\ UNCHANGED <<inVars, enc, encOut, dir, copies, listing, pool, outFiles>>

\* present: chunks.filter(Boolean).length
Present(chunks) == Cardinality(DOMAIN chunks)

\* STEP 2: verify & assemble
DecVerify ==
    /\ dec.pc = "s2"
    /\ IF ~IsNull(dec.expectedTotal) /\ Val(dec.expectedTotal) # 0
          /\ Present(dec.chunks) # Val(dec.expectedTotal)
       THEN /\ dec' = Exit1(dec, <<"Missing chunks", Present(dec.chunks), Val(dec.expectedTotal)>>)
            /\ decOut' = stepDone(stepStart(decOut, 2), FALSE)
       ELSE IF ~NoHoles(dec.chunks)
       THEN \* Buffer.concat throws on the hole: no stepDone
            /\ dec' = Threw(dec, <<"TypeError">>)
            /\ decOut' = stepStart(decOut, 2)
       ELSE IF ~IsNull(dec.cipherSha256)
               /\ Sha256(ConcatChunks(dec.chunks)) # Val(dec.cipherSha256)
       THEN /\ dec' = Exit1([dec EXCEPT !.encBuffer = ConcatChunks(dec.chunks)],
                            <<"Global sha256 mismatch">>)
            /\ decOut' = stepDone(stepStart(decOut, 2), FALSE)
       ELSE /\ dec' = [dec EXCEPT !.pc = "s3", !.encBuffer = ConcatChunks(dec.chunks)]
            /\ decOut' = stepDone(stepStart(decOut, 2), TRUE)
    /\ UNCHANGED <<inVars, enc, encOut, dir, copies, listing, pool, outFiles>>

\* tag = encBuffer.subarray(length - 16); ciphertext = encBuffer.subarray(0, length - 16)
TagOf(buf) ==
    IF BufLen(buf) >= TagLen THEN Slice(buf, BufLen(buf) - TagLen, BufLen(buf)) ELSE buf
BodyOf(buf) ==
    IF BufLen(buf) >= TagLen THEN Slice(buf, 0, BufLen(buf) - TagLen) ELSE <<>>

\* STEP 3: decrypt, with typed entered at the password prompt; the
\* passwords argument of decode is not read
DecDecrypt ==
    /\ dec.pc = "s3"
    /\ \E typed \in DecodeTty :
        IF IsNull(dec.nameBase) \/ IsNull(dec.metaExt)
        THEN /\ dec' = Exit1(dec, <<"Meta name/ext missing.">>)
             /\ decOut' = stepDone(stepStart(decOut, 3), FALSE)
        ELSE IF IsNull(dec.salt) \/ IsNull(dec.nonce)
        THEN /\ dec' = Exit1(dec, <<"Crypto parameters are missing.">>)
             /\ decOut' = stepDone(stepStart(decOut, 3), FALSE)
        ELSE IF ~PromptOk(typed)
        THEN /\ dec' = Threw([dec EXCEPT !.typed = Some(typed)],
                             <<"Password must be at least 8 characters long.">>)
             /\ decOut' = stepDone(stepStart(decOut, 3), FALSE)
        ELSE IF IsNull(dec.kdf)
        THEN \* kdf.N on null throws: no stepDone
             /\ dec' = Threw([dec EXCEPT !.typed = Some(typed)], <<"TypeError">>)
             /\ decOut' = stepStart(decOut, 3)
        ELSE IF GcmVerify(Scrypt(JoinNul(typed), Val(dec.salt), Val(dec.kdf)),
                          Val(dec.nonce), BodyOf(dec.encBuffer), TagOf(dec.encBuffer))
        THEN /\ dec' = [dec EXCEPT !.pc = "s4", !.typed = Some(typed)]
             /\ decOut' = stepDone(stepStart(decOut, 3), TRUE)
        ELSE /\ dec' = Exit1([dec EXCEPT !.typed = Some(typed)],
                             <<"Decryption failed. Wrong password or corrupted data.">>)
             /\ decOut' = stepDone(stepStart(decOut, 3), FALSE)
    /\ UNCHANGED <<inVars, enc, encOut, dir, copies, listing, pool, outFiles>>

\* ext = String(metaExt || ''); if (ext && !ext.startsWith('.')) ext = '.' + ext
OutExt(metaExt) ==
    IF Len(metaExt) > 0 /\ metaExt[1] # "." THEN <<".">> \o metaExt ELSE metaExt

\* STEP 4: write <name><ext>
DecWrite ==
    /\ dec.pc = "s4"
    /\ outFiles' = outFiles \cup
          {[name |-> Val(dec.nameBase) \o OutExt(Val(dec.metaExt)),
            data |-> GcmPlain(BodyOf(dec.encBuffer))]}
    /\ dec' = [dec EXCEPT !.pc = "exited", !.exit = "returned"]
    /\ decOut' = stepDone(stepStart(decOut, 4), TRUE)
    /\ UNCHANGED <<inVars, enc, encOut, dir, copies, listing, pool>>

(* ===================== encode up to its chunk loop ===================== *)
\* encode of a file of 0..MaxChunkPlain bytes under CHUNK_SIZE 1..MaxChunk
InitChunk ==
    /\ src \in {[kind |-> "file", base |-> <<"a", ".", "t">>, data |-> Plain(k)] :
                  k \in 0..MaxChunkPlain}
    /\ call = [passwords |-> <<PwA>>, tty |-> <<>>]
    /\ chunkEnv \in {Some(c) : c \in 1..MaxChunk}
    /\ ecl = "Q"
    /\ calibrator = "analytical"
    /\ decArgs = <<>>
    /\ legacy = Null
    /\ encPool = PoolOff /\ decPool = PoolOff
    /\ cal = CalOff
    /\ enc = Enc0
    /\ encOut = <<>>
    /\ dir = <<>>
    /\ copies = 0
    /\ listing = <<>>
    /\ pool = Pool0
    /\ dec = Dec0
    /\ decOut = <<>>
    /\ outFiles = {}

(* ========================= the calibration runs ======================== *)
\* file names: short with an extension, long ones, one whose characters
\* JSON.stringify escapes
CalNames == {<<"a", ".", "t">>, Rep("n", MidName), Rep("n", LongName), Rep(CTL, CtlName)}

\* encode of a file or of a missing path, QR_ECL one of the four levels,
\* CHUNK_SIZE unset or set, the passwords passed as the argument or typed
InitCal ==
    /\ src \in {[kind |-> "file", base |-> n, data |-> Plain(k)] :
                  n \in CalNames, k \in {0, MidPlain, BigPlain}}
                \cup {[kind |-> "missing", base |-> DirName, data |-> <<>>]}
    /\ call \in {[passwords |-> p, tty |-> <<>>] :
                    p \in { <<PwA>>, <<PwShort>>, <<PwA, PwShort>> }}
                 \cup {[passwords |-> <<>>, tty |-> t] : t \in { <<PwB>>, <<PwShort>> }}
    /\ chunkEnv \in {Null, Some(SmallEnv), Some(LargeEnv)}
    /\ ecl \in {"L", "M", "Q", "H"}
    /\ calibrator \in {"analytical", "empirical"}
    /\ decArgs = <<>>
    /\ legacy = Null
    /\ encPool = PoolOff /\ decPool = PoolOff
    /\ cal = CalOff
    /\ enc = Enc0
    /\ encOut = <<>>
    /\ dir = <<>>
    /\ copies = 0
    /\ listing = <<>>
    /\ pool = Pool0
    /\ dec = Dec0
    /\ decOut = <<>>
    /\ outFiles = {}

(* ======================== the runs over file names ===================== *)
\* base names of regular files: with an extension, without one, with
\* several dots, starting with a dot
BaseNames == {<<"a", ".", "t">>, <<"b">>, <<"a", ".", "b", ".", "t">>, <<".", "h">>}

\* encode then decode of a file whose content starts with no known magic
\* number, or with that of a PDF
InitName ==
    /\ src \in {[kind |-> "file", base |-> n, data |-> d] :
                  n \in BaseNames, d \in {Plain(MaxPlainLen), MagicPdf}}
    /\ call = [passwords |-> <<PwA>>, tty |-> <<>>]
    /\ chunkEnv = Some(NameChunk)
    /\ ecl = "Q"
    /\ calibrator = "analytical"
    /\ decArgs = <<>>
    /\ legacy = Null
    /\ encPool = PoolOff /\ decPool = PoolOff
    /\ cal = CalOff
    /\ enc = Enc0
    /\ encOut = <<>>
    /\ dir = <<>>
    /\ copies = 0
    /\ listing = <<>>
    /\ pool = Pool0
    /\ dec = Dec0
    /\ decOut = <<>>
    /\ outFiles = {}

(* ========================= the runs of the SDK ========================= *)
\* the password lists a caller passes
SdkPasswords == { <<PwA>>, <<PwA, PwB>> }

\* sdkEncode(input, passwords, outputDir), then decode called as the command
\* line does, without passwords, or sdkDecode(input, passwords, outputDir)
InitSdk ==
    /\ src = [kind |-> "file", base |-> <<"a", ".", "t">>, data |-> Plain(MaxPlainLen)]
    /\ call \in {[passwords |-> p, tty |-> <<>>] : p \in SdkPasswords}
    /\ chunkEnv = Some(NameChunk)
    /\ ecl = "Q"
    /\ calibrator = "analytical"
    /\ decArgs \in SdkPasswords \cup { <<>> }
    /\ legacy = Null
    /\ encPool = PoolOff /\ decPool = PoolOff
    /\ cal = CalOff
    /\ enc = Enc0
    /\ encOut = <<>>
    /\ dir = <<>>
    /\ copies = 0
    /\ listing = <<>>
    /\ pool = Pool0
    /\ dec = Dec0
    /\ decOut = <<>>
    /\ outFiles = {}

(* ================== a directory the encoder did not fill =============== *)
\* the payload objects one encode run emits for source s
SessionPayloads(s, passwords, id, cs) ==
    LET frame == EncryptFrame(Scrypt(JoinNul(passwords), SaltOf(id), ScryptParams),
                              NonceOf(id), s.data)
        meta == ObjSet(BaseMeta(NameBaseOf(s), MetaExtOf(s), frame, SaltOf(id), NonceOf(id)),
                       "chunkSize", cs)
    IN  [k \in 1..TotalChunks(BufLen(frame), cs) |-> ChunkPayload(meta, frame, cs, k - 1)]

\* the symbol that carries payload object o
Symbol(o) == [qr |-> TRUE, text |-> Stringify(o)]
Symbols(os) == [k \in 1..Len(os) |-> Symbol(os[k])]

\* o without its field k
ObjDel(o, k) == LET Keep(pr) == pr[1] # k IN SelectSeq(o, Keep)

\* base64 text with its first character replaced by another base64 character
FlipFirst(str) ==
    << << <<"b64", <<"x", str[1][1][2]>> >>, str[1][2], str[1][2] + 1 >> >> \o Drop(str, 1)

\* seq without its element k
RemoveAt(seq, k) == SubSeq(seq, 1, k - 1) \o SubSeq(seq, k + 1, Len(seq))

SourceA == [kind |-> "file", base |-> <<"a", ".", "t">>, data |-> Plain(2)]
SourceB == [kind |-> "file", base |-> <<"b">>, data |-> Plain(1)]
SessionA(cs) == SessionPayloads(SourceA, <<PwA>>, 1, cs)
SessionB(cs) == SessionPayloads(SourceB, <<PwB>>, 2, cs)

\* what one change makes of the payloads os of a session
Tampered(os) ==
    {os}
    \* a symbol is lost
    \cup {RemoveAt(os, k) : k \in 1..Len(os)}
    \* a symbol's data is damaged, in place or in an added copy
    \cup {[os EXCEPT ![k] = ObjSet(os[k], "dataB64", FlipFirst(ObjGet(os[k], "dataB64")))] :
            k \in 1..Len(os)}
    \cup {Append(os, ObjSet(os[k], "dataB64", FlipFirst(ObjGet(os[k], "dataB64")))) :
            k \in 1..Len(os)}
    \* the payloads carry no cipherHash
    \cup {[k \in 1..Len(os) |-> ObjDel(os[k], "cipherHash")]}
    \* the payloads carry no ext
    \cup {[k \in 1..Len(os) |-> ObjDel(os[k], "ext")]}
    \* one payload disagrees on a session field
    \cup {[os EXCEPT ![k] = ObjSet(os[k], "total", Len(os) + 1)] : k \in 1..Len(os)}
    \cup {[os EXCEPT ![k] = ObjSet(os[k], "name", <<"z">>)] : k \in 1..Len(os)}
    \* one payload's index lies outside 0..total-1
    \cup {[os EXCEPT ![k] = ObjSet(os[k], "chunk", Len(os))] : k \in 1..Len(os)}
    \* one payload carries another version string
    \cup {[os EXCEPT ![k] = ObjSet(os[k], "version", "2.0")] : k \in 1..Len(os)}
    \* payloads of another session lie in the same directory
    \cup {os \o SubSeq(SessionB(AdvChunkB), j, j) : j \in 1..Len(SessionB(AdvChunkB))}
    \cup {os \o SessionB(AdvChunkB)}

\* a payload of another kind that looks like chunk 0 of session os, with
\* a name and data of its own
Foreign(os, type) ==
    ObjSpread(os[1], type \o << <<"name", <<"z">> >>,
                                <<"dataB64", FlipFirst(ObjGet(os[1], "dataB64"))>> >>)

\* images decode cannot use: no symbol in the picture, a symbol whose text
\* is not JSON, a payload of another type, a payload without type
JunkImages(os) ==
    {[qr |-> FALSE, text |-> <<>>],
     [qr |-> TRUE, text |-> <<"hello">>],
     Symbol(Foreign(os, << <<"type", "other">> >>)),
     Symbol(ObjDel(Foreign(os, <<>>), "type"))}

AdvDirs ==
    {Symbols(os) : os \in Tampered(SessionA(AdvChunk3)) \cup Tampered(SessionA(AdvChunk2))}
    \cup {Append(Symbols(SessionA(AdvChunk2)), j) : j \in JunkImages(SessionA(AdvChunk2))}
    \cup {<<j>> : j \in JunkImages(SessionA(AdvChunk2))}

InitAdv ==
    /\ src = SourceA
    /\ call = [passwords |-> <<PwA>>, tty |-> <<>>]
    /\ chunkEnv = Some(AdvChunk3)
    /\ ecl = "Q"
    /\ calibrator = "analytical"
    /\ decArgs = <<>>
    /\ legacy = Null
    /\ encPool = PoolOff /\ decPool = PoolOff
    /\ cal = CalOff
    /\ enc = [Enc0 EXCEPT !.pc = "none"]
    /\ encOut = <<>>
    /\ dir \in AdvDirs
    /\ copies = 0
    /\ listing = <<>>
    /\ pool = Pool0
    /\ dec = Dec0
    /\ decOut = <<>>
    /\ outFiles = {}

(* ===================== the fragments of older versions ================= *)
\* the *.bin.json fragment that carries what payload p carries
Fragment(p) ==
    << <<"type", ObjGet(p, "type")>>, <<"chunk", ObjGet(p, "chunk")>>,
       <<"name", ObjGet(p, "name")>>, <<"ext", ObjGet(p, "ext")>>,
       <<"hash", ObjGet(p, "hash")>>, <<"data", ObjGet(p, "dataB64")>> >>

\* a manifest.json for the session of payload p, its fields under the names k
ManifestOf(p, k) ==
    << <<k[1], ObjGet(p, "total")>>, <<k[2], ObjGet(p, "cipherHash")>>,
       <<k[3], ObjGet(p, "kdfParams")>>, <<k[4], ObjGet(p, "saltB64")>>,
       <<k[5], ObjGet(p, "nonceB64")>>, <<"name", ObjGet(p, "name")>>,
       <<k[6], ObjGet(p, "ext")>> >>

CamelKeys == <<"totalChunks", "cipherSha256", "kdfParams", "saltB64", "nonceB64", "ext">>
SnakeKeys == <<"total_chunks", "cipher_sha256", "kdf_params", "salt_b64", "nonce_b64",
               "archive_ext">>

\* the manifests tried: all camelCase, all snake_case, one of each kind
\* mixed, and manifests that lack the salt, the kdf parameters or the name
Manifests(p) ==
    {ManifestOf(p, CamelKeys), ManifestOf(p, SnakeKeys),
     ManifestOf(p, [CamelKeys EXCEPT ![4] = SnakeKeys[4], ![1] = SnakeKeys[1]]),
     ObjDel(ManifestOf(p, CamelKeys), "saltB64"),
     ObjDel(ManifestOf(p, SnakeKeys), "kdf_params"),
     ObjDel(ManifestOf(p, SnakeKeys), "name")}

\* manifest.a || manifest.b, for fields that are truthy when present
Either(o, a, b) ==
    IF ObjHas(o, a) THEN Some(ObjGet(o, a))
    ELSE IF ObjHas(o, b) THEN Some(ObjGet(o, b))
    ELSE Null

SessionOne == SessionPayloads(SourceA, <<PwA>>, 1, LegacyChunk)
\* the name of fragment k, its number in unary
FragName(k) == <<"f">> \o [j \in 1..k |-> "i"] \o <<".", "bin", ".", "json">>

\* inputPath names one fragment file, manifest.json beside it or nowhere
LegacyFiles ==
    LET frags ==
          {Fragment(SessionOne[1]),
           Fragment(ObjSet(SessionOne[1], "dataB64",
                           FlipFirst(ObjGet(SessionOne[1], "dataB64")))),
           Fragment(ObjSet(SessionOne[1], "type", "other"))}
          \cup {Fragment(SessionA(AdvChunk2)[k]) : k \in 1..Len(SessionA(AdvChunk2))}
    IN  {[base |-> FragName(ObjGet(f, "chunk")), frag |-> f, manifest |-> m] :
            f \in frags,
            m \in {Some(x) : x \in Manifests(SessionOne[1])} \cup {Null}}

\* inputPath names a directory that holds the fragments of a session and
\* its manifest.json, with or without the QR images of the session
LegacyDirs ==
    LET files(os, keys) ==
          [k \in 1..Len(os) |-> [file |-> FragName(k - 1), json |-> Fragment(os[k])]]
          \o <<[file |-> <<"manifest", ".", "json">>, json |-> ManifestOf(os[1], keys)]>>
    IN  {files(os, keys) : os \in {SessionOne, SessionA(AdvChunk2)},
                           keys \in {CamelKeys, SnakeKeys}}
        \cup {Symbols(SessionOne) \o files(SessionOne, CamelKeys)}

\* STEP 1 when inputPath is not a directory: manifest.json, then the fragments
\* listFragmentsFlexible(inputPath) names, here the one file
DecLegacy ==
    /\ dec.pc = "idle"
    /\ ~IsNull(legacy)
    /\ LET in == Val(legacy)
           frag == in.frag
           buf == B64Decode(ObjGet(frag, "data"))
       IN
       IF IsNull(in.manifest)
       THEN /\ dec' = Exit1(dec, <<"No manifest.json for legacy fragments.">>)
            /\ decOut' = stepDone(stepStart(decOut, 1), FALSE)
       ELSE LET m == Val(in.manifest)
                stem == IF DotsOf(in.base) = {} \/ LastOf(DotsOf(in.base)) = Len(in.base)
                        THEN in.base
                        ELSE SubSeq(in.base, 1, LastOf(DotsOf(in.base)) - 1)
                st == [dec EXCEPT
                        !.expectedTotal = Either(m, "totalChunks", "total_chunks"),
                        !.cipherSha256 = Either(m, "cipherSha256", "cipher_sha256"),
                        !.kdf = Either(m, "kdfParams", "kdf_params"),
                        !.salt = Some(B64Decode(Val(Either(m, "saltB64", "salt_b64")))),
                        !.nonce = Some(B64Decode(Val(Either(m, "nonceB64", "nonce_b64")))),
                        !.nameBase = IF ObjHas(m, "name") THEN Some(ObjGet(m, "name"))
                                     ELSE Some(stem),
                        !.metaExt = IF ObjHas(m, "ext") THEN Some(ObjGet(m, "ext"))
                                    ELSE IF ObjHas(m, "archive_ext")
                                    THEN Some(ObjGet(m, "archive_ext"))
                                    ELSE Some(<<>>)]
            IN
            IF IsNull(Either(m, "saltB64", "salt_b64"))
               \/ IsNull(Either(m, "nonceB64", "nonce_b64"))
            THEN \* Buffer.from(undefined, 'base64') throws: no stepDone
                 /\ dec' = Threw(dec, <<"TypeError">>)
                 /\ decOut' = stepStart(decOut, 1)
            ELSE IF ObjGet(frag, "type") # FRAGMENT_TYPE
            THEN \* continue: the loop ends with no chunk
                 /\ dec' = [st EXCEPT !.pc = "s2"]
                 /\ decOut' = stepDone(stepStart(decOut, 1), TRUE)
            ELSE IF Sha256(buf) # ObjGet(frag, "hash")
            THEN /\ dec' = Exit1([st EXCEPT
                                    !.nameBase = IF NoText(@) /\ Truthy(frag, "name")
                                                 THEN Some(ObjGet(frag, "name")) ELSE @,
                                    !.metaExt = IF NoText(@) /\ ObjHas(frag, "ext")
                                                THEN Some(ObjGet(frag, "ext")) ELSE @],
                                  <<"Chunk hash mismatch">>)
                 /\ decOut' = stepDone(stepStart(decOut, 1), FALSE)
            ELSE /\ dec' = [st EXCEPT !.pc = "s2",
                                      !.nameBase = IF NoText(@) /\ Truthy(frag, "name")
                                                   THEN Some(ObjGet(frag, "name")) ELSE @,
                                      !.metaExt = IF NoText(@) /\ ObjHas(frag, "ext")
                                                  THEN Some(ObjGet(frag, "ext")) ELSE @,
                                      !.chunks = (ObjGet(frag, "chunk") :> buf)]
                 /\ decOut' = stepDone(stepStart(decOut, 1), TRUE)
    /\ UNCHANGED <<inVars, enc, encOut, dir, copies, listing, pool, outFiles>>

InitLegacy ==
    /\ src = SourceA
    /\ call = [passwords |-> <<PwA>>, tty |-> <<>>]
    /\ chunkEnv = Some(LegacyChunk)
    /\ ecl = "Q"
    /\ calibrator = "analytical"
    /\ decArgs = <<>>
    /\ \/ legacy = Null /\ dir \in LegacyDirs
       \/ legacy \in {Some(f) : f \in LegacyFiles} /\ dir = <<>>
    /\ encPool = PoolOff /\ decPool = PoolOff
    /\ cal = CalOff
    /\ enc = [Enc0 EXCEPT !.pc = "none"]
    /\ encOut = <<>>
    /\ copies = 0
    /\ listing = <<>>
    /\ pool = Pool0
    /\ dec = Dec0
    /\ decOut = <<>>
    /\ outFiles = {}

(* ==================== the two pools, event by event =================== *)
\* function launch(): while (active < MAX_WORKERS && i < total) { i++; active++; new Worker }
PoolLaunch(p) ==
    LET room == IF p.W - p.active < 0 THEN 0 ELSE p.W - p.active
        k == Min(p.total - p.i, room)
    IN  [p EXCEPT !.i = @ + k, !.active = @ + k,
                  !.launched = [j \in 1..p.total |->
                                  IF j \in (p.i + 1)..(p.i + k) THEN @[j] + 1 ELSE @[j]]]

\* a pool function that sets its counters and forgets to call launch()
PoolCalled_noLaunch(p, total) ==
    [p EXCEPT !.on = TRUE, !.total = total,
              !.launched = [j \in 1..total |-> 0],
              !.ev = [j \in 1..total |-> <<>>],
              !.results = [j \in 1..total |-> Null]]

\* the pool function called for total tasks: the counters, then launch()
PoolCalled(p, total) ==
    PoolLaunch([p EXCEPT !.on = TRUE, !.total = total,
                         !.launched = [j \in 1..total |-> 0],
                         !.ev = [j \in 1..total |-> <<>>],
                         !.results = [j \in 1..total |-> Null]])

\* an end of the callback that resolves on the first failure
PoolSettle_abortOnFail(p, v) ==
    IF p.fail > 0 \/ (p.i >= p.total /\ p.active = 0)
    THEN [p EXCEPT !.resolves = @ + 1, !.value = IF IsNull(@) THEN Some(v) ELSE @]
    ELSE IF p.i < p.total THEN PoolLaunch(p)
    ELSE p

\* the end of each callback: if (i < total) launch(); else if (active === 0)
\* resolve(v).  A promise keeps the value of the first resolve.
PoolSettle(p, v) ==
    IF p.i < p.total THEN PoolLaunch(p)
    ELSE IF p.active = 0
    THEN [p EXCEPT !.resolves = @ + 1, !.value = IF IsNull(@) THEN Some(v) ELSE @]
    ELSE p

\* the events a worker that has raised evs may raise next: a message
\* ({ ok: true } or { ok: false }) or an error, and an error after a message
NextEvents(evs) ==
    IF evs = <<>> THEN {"ok", "bad", "error"}
    ELSE IF Len(evs) = 1 /\ evs[1] # "error" THEN {"error"}
    ELSE {}

\* STEP 6, up to the await: runPool(tasks) is called
RunPool ==
    /\ enc.pc = "s6"
    /\ ~encPool.on
    /\ encPool' = PoolCalled(encPool, Len(enc.tasks))
    /\ encOut' = stepStart(encOut, 6)
    /\ UNCHANGED <<cfgVars, decPool, enc, decVars>>

\* worker k of runPool raises event e.  runWorker's promise takes the first
\* event of the worker; its then-callback counts the task and goes on
EncWorkerEvent(k, e) ==
    /\ encPool.on
    /\ k \in 1..encPool.i
    /\ e \in NextEvents(encPool.ev[k])
    /\ LET p == [encPool EXCEPT !.ev[k] = Append(@, e)] IN
       encPool' =
         IF encPool.ev[k] # <<>> THEN p
         ELSE LET q == [p EXCEPT !.active = @ - 1,
                                 !.ok = IF e = "ok" THEN @ + 1 ELSE @,
                                 !.fail = IF e = "ok" THEN @ ELSE @ + 1]
              IN  PoolSettle(q, [ok |-> q.ok, fail |-> q.fail])
    /\ UNCHANGED <<cfgVars, decPool, enc, encOut, decVars>>

\* STEP 6, after the await: stepDone(fail === 0); if (fail) throw.  The
\* directory holds the images of the workers that posted { ok: true }.
EncAwaitPool ==
    /\ enc.pc = "s6"
    /\ ~IsNull(encPool.value)
    /\ LET v == Val(encPool.value)
           failed == {k \in 1..Len(enc.tasks) :
                        encPool.ev[k] = <<>> \/ encPool.ev[k][1] # "ok"}
       IN  /\ dir' = Written(enc.tasks, failed, 1)
           /\ enc' = [enc EXCEPT !.pc = IF v.fail = 0 THEN "s7" ELSE "threw",
                                 !.fail = v.fail]
           /\ encOut' = stepDone(encOut, v.fail = 0)
    /\ UNCHANGED <<inVars, copies, listing, pool, dec, decOut, outFiles>>

\* runDecodePool(imgs) is called on the images of the directory
RunDecodePool ==
    /\ enc.pc = "none"
    /\ ~decPool.on
    /\ Len(dir) > 0
    /\ decPool' = PoolCalled(decPool, Len(dir))
    /\ UNCHANGED <<cfgVars, encPool, enc, encOut, decVars>>

\* worker k of runDecodePool raises event e: w.once('message') and
\* w.once('error') each run active--, store a result and go on
DecWorkerEvent(k, e) ==
    /\ decPool.on
    /\ k \in 1..decPool.i
    /\ e \in NextEvents(decPool.ev[k])
    /\ LET q == [decPool EXCEPT !.ev[k] = Append(@, e), !.active = @ - 1,
                                !.results[k] = Some(e)]
       IN  decPool' = PoolSettle(q, q.results)
    /\ UNCHANGED <<cfgVars, encPool, enc, encOut, decVars>>

\* the directories runDecodePool is called on: 1, 2 and 3 images
PoolDirs == {Symbols(SessionA(c)) : c \in {AdvChunk3, AdvChunk2, LegacyChunk}}

\* either encode of a file of 0 or 1 bytes into 1, 2 or 3 tasks, or
\* runDecodePool on a directory, each with 1..Workers workers
InitPool ==
    /\ call = [passwords |-> <<PwA>>, tty |-> <<>>]
    /\ ecl = "Q"
    /\ calibrator = "analytical"
    /\ decArgs = <<>>
    /\ legacy = Null
    /\ \E w \in 1..Workers :
        \/ /\ src \in {[kind |-> "file", base |-> <<"a", ".", "t">>, data |-> Plain(k)] :
                         k \in 0..1}
           /\ chunkEnv \in {Some(c) : c \in {AdvChunk3, AdvChunk2, LegacyChunk}}
           /\ enc = Enc0
           /\ dir = <<>>
           /\ encPool = [PoolOff EXCEPT !.W = w]
           /\ decPool = PoolOff
        \/ /\ src = SourceA
           /\ chunkEnv = Some(AdvChunk3)
           /\ enc = [Enc0 EXCEPT !.pc = "none"]
           /\ dir \in PoolDirs
           /\ encPool = PoolOff
           /\ decPool = [PoolOff EXCEPT !.W = w]
    /\ cal = CalOff
    /\ encOut = <<>>
    /\ copies = 0
    /\ listing = <<>>
    /\ pool = Pool0
    /\ dec = Dec0
    /\ decOut = <<>>
    /\ outFiles = {}

(* =============== the calibration on a fit predicate, test by test ====== *)
\* the largest n that fits, for the predicates tried
FitLimits ==
    (1..MaxFit)
    \cup {GrowStart - 1, GrowStart, GrowStart + 1, 3 * GrowStart,
          GrowCap - 1, GrowCap, GrowCap + 1,
          2 * GrowCap - 1, 2 * GrowCap, 2 * GrowCap + 1, 4 * GrowCap}

\* await test(n), for a monotone predicate whose largest fitting n is limit
CalTest(c, n) == n <= c.limit

\* a middle that rounds down
CalMid_down(lo, hi) == (lo + hi) \div 2

\* mid = Math.floor((lo + hi + 1) / 2)
CalMid(lo, hi) == (lo + hi + 1) \div 2

\* while (await test(hi)) { lo = hi; hi *= 2; if (hi > 1 << 22) break; }
CalGrow ==
    /\ cal.pc = "grow"
    /\ cal' = IF CalTest(cal, cal.hi)
              THEN [cal EXCEPT !.lo = cal.hi, !.hi = 2 * cal.hi,
                               !.passed = @ \cup {cal.hi}, !.tests = @ + 1,
                               !.pc = IF 2 * cal.hi > GrowCap THEN "search" ELSE "grow"]
              ELSE [cal EXCEPT !.tests = @ + 1, !.pc = "search"]
    /\ UNCHANGED <<src, call, chunkEnv, ecl, calibrator, decArgs, legacy, encPool, decPool,
                   enc, encOut, decVars>>

\* while (lo < hi) { if (await test(mid)) lo = mid; else hi = mid - 1; }
CalSearch ==
    /\ cal.pc = "search"
    /\ cal.lo < cal.hi
    /\ LET mid == CalMid(cal.lo, cal.hi) IN
       cal' = IF CalTest(cal, mid)
              THEN [cal EXCEPT !.lo = mid, !.passed = @ \cup {mid}, !.tests = @ + 1]
              ELSE [cal EXCEPT !.hi = mid - 1, !.tests = @ + 1]
    /\ UNCHANGED <<src, call, chunkEnv, ecl, calibrator, decArgs, legacy, encPool, decPool,
                   enc, encOut, decVars>>

\* return Math.floor(lo * 0.92)
CalReturn ==
    /\ cal.pc = "search"
    /\ ~(cal.lo < cal.hi)
    /\ cal' = [cal EXCEPT !.pc = "done", !.result = (cal.lo * 23) \div 25]
    /\ UNCHANGED <<src, call, chunkEnv, ecl, calibrator, decArgs, legacy, encPool, decPool,
                   enc, encOut, decVars>>

\* calibrateMaxDataB64 is entered: let lo = 1, hi = 2048
InitFit ==
    /\ src = SourceA
    /\ call = [passwords |-> <<PwA>>, tty |-> <<>>]
    /\ chunkEnv = Null
    /\ ecl = "Q"
    /\ calibrator = "empirical"
    /\ decArgs = <<>>
    /\ legacy = Null
    /\ encPool = PoolOff /\ decPool = PoolOff
    /\ cal \in {[CalOff EXCEPT !.pc = "grow", !.limit = n, !.lo = 1, !.hi = GrowStart] :
                  n \in FitLimits}
    /\ enc = [Enc0 EXCEPT !.pc = "none"]
    /\ encOut = <<>>
    /\ dir = <<>>
    /\ copies = 0
    /\ listing = <<>>
    /\ pool = Pool0
    /\ dec = Dec0
    /\ decOut = <<>>
    /\ outFiles = {}

(* ========================== the specification ========================== *)
Next ==
    \/ EncStep1
    \/ EncStep2
    \/ EncStep3
    \/ EncStep4
    \/ EncStep5
    \/ EncStep6
    \/ EncStep7
    \/ \E k \in 1..Len(dir) : CopyImage(k)
    \/ DecStart
    \/ \E idx \in pool.active : WorkerMessage(idx)
    \/ DecCollect
    \/ DecVerify
    \/ DecDecrypt
    \/ DecWrite

Spec == Init /\ [][Next]_vars

\* decode alone, on any directory
NextDec ==
    \/ DecStart
    \/ \E idx \in pool.active : WorkerMessage(idx)
    \/ DecCollect
    \/ DecVerify
    \/ DecDecrypt
    \/ DecWrite

SpecAdv == InitAdv /\ [][NextDec]_vars

\* encode's steps 1 to 5
NextChunk ==
    \/ EncStep1
    \/ EncStep2
    \/ EncStep3
    \/ EncStep4
    \/ EncStep5

SpecChunk == InitChunk /\ [][NextChunk]_vars

\* encode with its pool, and the decoder's pool, event by event
PoolSteps ==
    \/ EncStep1
    \/ EncStep2
    \/ EncStep3
    \/ EncStep4
    \/ EncStep5
    \/ RunPool
    \/ EncAwaitPool
    \/ RunDecodePool

NextPool ==
    \/ PoolSteps
    \/ \E k \in 1..MaxTasks, e \in {"ok", "bad", "error"} : EncWorkerEvent(k, e)
    \/ \E k \in 1..MaxTasks, e \in {"ok", "bad", "error"} : DecWorkerEvent(k, e)

SpecPool == InitPool /\ [][NextPool]_vars

\* a step of the control thread at a pool, or the first event of a
\* launched worker
Progress ==
    \/ RunPool
    \/ EncAwaitPool
    \/ RunDecodePool
    \/ \E k \in 1..MaxTasks, e \in {"ok", "bad", "error"} :
          encPool.on /\ k \in 1..encPool.i /\ encPool.ev[k] = <<>> /\ EncWorkerEvent(k, e)
    \/ \E k \in 1..MaxTasks, e \in {"ok", "bad", "error"} :
          decPool.on /\ k \in 1..decPool.i /\ decPool.ev[k] = <<>> /\ DecWorkerEvent(k, e)

\* once at a pool the control thread runs on, and every launched worker
\* eventually posts a message or raises an error; an error after a message
\* may never come, and steps 1 to 5 wait for the user
SpecPoolLive == SpecPool /\ WF_vars(Progress)

\* the calibration alone
NextFit ==
    \/ CalGrow
    \/ CalSearch
    \/ CalReturn

SpecFit == InitFit /\ [][NextFit]_vars

\* decode alone, on fragments and manifests
NextLegacy ==
    \/ DecStart
    \/ DecLegacy
    \/ \E idx \in pool.active : WorkerMessage(idx)
    \/ DecCollect
    \/ DecVerify
    \/ DecDecrypt
    \/ DecWrite

SpecLegacy == InitLegacy /\ [][NextLegacy]_vars

\* encode, then decode, over the file names
SpecName == InitName /\ [][Next]_vars

\* encode, then decode, called through the SDK
SpecSdk == InitSdk /\ [][Next]_vars

\* encode up to the queue of step 5, over the calibration runs
SpecCal == InitCal /\ [][NextChunk]_vars


(* ============================ the properties =========================== *)
\* the password list encode used: its argument, or what was typed
EncPasswords == IF Len(call.passwords) > 0 THEN call.passwords ELSE call.tty

\* the step lines decode has printed end with step n's line, closed by [ok]
LastLine(n, ok) ==
    /\ Len(decOut) >= 2
    /\ decOut[Len(decOut) - 1] = <<"start", n>>
    /\ decOut[Len(decOut)] = <<"done", ok>>

\* decode has printed the start of step n
StepStarted(n) == \E i \in 1..Len(decOut) : decOut[i] = <<"start", n>>

\* decode is past the collect loop
Collected == dec.pc \in {"s2", "s3", "s4"} \/ (dec.pc = "exited" /\ Len(dec.acc) > 0)

\* C1: round trip.  After encode of source S with a password list P whose
\* entries all have at least 8 bytes, a decode of the images it wrote reaches
\* the password prompt, and when the same list P is entered there it returns
\* having written exactly one file, whose bytes are those of S.
C1_RoundTrip ==
    (enc.pc = "done" /\ dec.pc = "exited" /\ PromptOk(EncPasswords)) =>
        /\ ~IsNull(dec.typed)
        /\ Val(dec.typed) = EncPasswords =>
              /\ dec.exit = "returned"
              /\ \E f \in outFiles : outFiles = {f} /\ f.data = src.data

\* a source of two bytes, encrypted under two passwords, cut in three chunks
\* and restored
C1_Witness ==
    /\ enc.pc = "done" /\ dec.exit = "returned"
    /\ Val(dec.typed) = EncPasswords /\ Len(EncPasswords) = 2
    /\ Len(listing) = 3 /\ Len(src.data) = MaxPlainLen
    /\ \E f \in outFiles : f.data = src.data

\* C2: wrong password.  When the passphrase entered at decode (the passwords
\* joined by NUL) differs from the one the images were produced with, decode
\* ends at step 3 with [0], does not return and writes no file; and decode is
\* at its write step, or has written, only with a tag that verified.
C2_WrongPassword ==
    /\ (enc.pc = "done" /\ ~IsNull(dec.typed)
        /\ JoinNul(Val(dec.typed)) # enc.passphrase) =>
            /\ dec.pc = "exited" /\ dec.exit \in {"exit1", "threw"}
            /\ LastLine(3, 0)
            /\ outFiles = {}
    /\ (enc.pc = "done" /\ (dec.pc = "s4" \/ outFiles # {})) =>
            GcmVerify(Scrypt(JoinNul(Val(dec.typed)), Val(dec.salt), Val(dec.kdf)),
                      Val(dec.nonce), BodyOf(dec.encBuffer), TagOf(dec.encBuffer))

\* images produced with one password, another valid password entered, and
\* the decipher refused
C2_Witness ==
    /\ enc.pc = "done" /\ dec.exit = "exit1"
    /\ ~IsNull(dec.typed) /\ PromptOk(Val(dec.typed))
    /\ JoinNul(Val(dec.typed)) # enc.passphrase
    /\ dec.err = <<"Decryption failed. Wrong password or corrupted data.">>
    /\ outFiles = {}

\* the chunk array the images encode wrote give, with no copy among them
OwnChunks ==
    FillChunks(<<>>, CollectAll(Dec0, [k \in 1..Len(enc.tasks) |->
                                          WorkerResult(ImageOf(enc.tasks[k]))]).acc)

\* C8: duplicates are idempotent.  With any number of copies of its images
\* added to a complete set, in any enumeration order, decode assembles the
\* chunk array and the ciphertext of the set without copies, and its outcome
\* is the one the password entered decides for that set: the file restored
\* for the right passphrase, [0] at step 3 otherwise.
C8_Duplicates ==
    (enc.pc = "done" /\ Collected) =>
        /\ dec.chunks = OwnChunks
        /\ dec.pc \in {"s3", "s4", "exited"} => dec.encBuffer = enc.frame
        /\ dec.pc = "exited" =>
              /\ ~IsNull(dec.typed)
              /\ dec.exit = "returned" <=>
                    (PromptOk(Val(dec.typed)) /\ JoinNul(Val(dec.typed)) = enc.passphrase)
              /\ dec.exit = "returned" =>
                    outFiles = {[name |-> enc.nameBase \o OutExt(enc.metaExt),
                                 data |-> src.data]}
              /\ dec.exit # "returned" => (outFiles = {} /\ LastLine(3, 0))

\* a three-chunk set to which a copy was added, decoded to the end
C8_Witness ==
    /\ enc.pc = "done" /\ copies > 0 /\ Len(listing) = 4
    /\ dec.exit = "returned"
    /\ dec.chunks = OwnChunks

\* byte j (from 0) of a buffer: the source it is read from and its place there
RECURSIVE ByteAt(_, _)
ByteAt(buf, j) ==
    IF j < RunLen(Head(buf)) THEN <<Head(buf)[1], Head(buf)[2] + j>>
    ELSE ByteAt(Tail(buf), j - RunLen(Head(buf)))

\* a buffer byte by byte
Bytes(buf) == [j \in 1..BufLen(buf) |-> ByteAt(buf, j - 1)]

\* the payload of task k (from 1) and the bytes it carries
TaskPayload(k) == ParseJson(enc.tasks[k].text)
TaskBytes(k) == B64Decode(ObjGet(TaskPayload(k), "dataB64"))

\* C10: chunking.  For a frame of length len and chunk size CS >= 1, step 5
\* queues total = ceil(len/CS) payloads, payload i (from 0) has chunk = i and
\* total = total and carries the frame's bytes i*CS .. min((i+1)*CS, len)-1;
\* every chunk but the last has CS bytes, the last has len-(total-1)*CS bytes,
\* between 1 and CS; the chunks concatenated in index order are the frame.
C10_Chunking ==
    enc.pc = "s6" =>
        LET len == BufLen(enc.frame)
            cs == enc.chunkSize
            total == Len(enc.tasks)
        IN  /\ cs >= 1
            /\ total * cs >= len /\ (total - 1) * cs < len
            /\ \A k \in 1..total :
                  /\ ObjGet(TaskPayload(k), "chunk") = k - 1
                  /\ ObjGet(TaskPayload(k), "total") = total
                  /\ Bytes(TaskBytes(k)) =
                        [j \in 1..(Min(k * cs, len) - (k - 1) * cs) |->
                            ByteAt(enc.frame, (k - 1) * cs + j - 1)]
            /\ \A k \in 1..(total - 1) : BufLen(TaskBytes(k)) = cs
            /\ BufLen(TaskBytes(total)) = len - (total - 1) * cs
            /\ BufLen(TaskBytes(total)) \in 1..cs
            /\ Bytes(Concat([k \in 1..total |-> TaskBytes(k)])) = Bytes(enc.frame)

\* a frame cut in four chunks, the last one shorter than the chunk size
C10_Witness ==
    /\ enc.pc = "s6"
    /\ Len(enc.tasks) = 4
    /\ BufLen(TaskBytes(4)) < enc.chunkSize
    /\ BufLen(TaskBytes(1)) = enc.chunkSize

\* the payloads the collect loop takes from the listing, in its order
Taken(images) ==
    LET Takes(img) == /\ WorkerResult(img).ok
                      /\ IsChunkPayload(WorkerResult(img).payload)
                      /\ Truthy(WorkerResult(img).payload, "dataB64")
        kept == SelectSeq(images, Takes)
    IN  [k \in 1..Len(kept) |-> WorkerResult(kept[k]).payload]

\* SHA-256 of the payload's decoded data is its hash field
HashOk(m) ==
    ObjHas(m, "hash") /\ Sha256(B64Decode(ObjGet(m, "dataB64"))) = ObjGet(m, "hash")

\* C3: no silent success.  Decode is at or past step 3, or has written a
\* file, only if the payloads carried a cipherHash and the SHA-256 of the
\* chunks concatenated in index order equals it; otherwise step 2 is fatal.
C3_NoSilentSuccess ==
    (dec.pc \in {"s3", "s4"} \/ StepStarted(3) \/ outFiles # {}) =>
        /\ ~IsNull(dec.cipherSha256)
        /\ NoHoles(dec.chunks)
        /\ Sha256(ConcatChunks(dec.chunks)) = Val(dec.cipherSha256)

\* payloads without cipherHash: no hash was compared, and decode returned
\* with a file written
C3_Witness ==
    /\ dec.exit = "returned"
    /\ IsNull(dec.cipherSha256)
    /\ LastLine(4, 1)
    /\ outFiles # {}

\* C4: per-chunk hash.  Every chunk in the chunk array comes from a payload
\* of that index whose data hashes to its hash field; and when the only
\* payloads of an index have data that does not hash to their hash field,
\* decode exits in step 1 with [0] and an error that names that index.
C4_ChunkHash ==
    Collected =>
        LET ps == Taken(listing) IN
        /\ \A i \in DOMAIN dec.chunks :
              \E k \in 1..Len(ps) :
                 /\ ObjGet(ps[k], "chunk") = i
                 /\ B64Decode(ObjGet(ps[k], "dataB64")) = dec.chunks[i]
                 /\ HashOk(ps[k])
        /\ \A k \in 1..Len(ps) :
              (\A j \in 1..Len(ps) :
                  ObjGet(ps[j], "chunk") = ObjGet(ps[k], "chunk") => ~HashOk(ps[j]))
              => /\ dec.exit = "exit1"
                 /\ LastLine(1, 0)
                 /\ dec.err = <<"Chunk hash mismatch", ObjGet(ps[k], "chunk")>>

\* a payload whose data does not hash to its hash field is in the chunk
\* array, and decode ended on the global hash of step 2
C4_Witness ==
    /\ dec.pc = "exited"
    /\ dec.err = <<"Global sha256 mismatch">>
    /\ LastLine(2, 0)
    /\ \E k \in 1..Len(Taken(listing)) :
          LET m == Taken(listing)[k] IN
          /\ ~HashOk(m)
          /\ ObjGet(m, "chunk") \in DOMAIN dec.chunks
          /\ dec.chunks[ObjGet(m, "chunk")] = B64Decode(ObjGet(m, "dataB64"))
          /\ \A j \in 1..Len(Taken(listing)) :
                ObjGet(Taken(listing)[j], "chunk") = ObjGet(m, "chunk") => j = k

\* the indices 0..total-1 that have no chunk
MissingIndices ==
    {i \in 0..(Val(dec.expectedTotal) - 1) : i \notin DOMAIN dec.chunks}

\* C5: missing chunks.  When the collect loop is over and an index in
\* 0..total-1 has no chunk, then once step 2 has acted decode has exited with
\* [0] on the step 2 line and an error that lists the missing indices, and
\* it never decrypts or writes, whatever else the directory holds.
C5_MissingChunks ==
    (Collected /\ MissingIndices # {}) =>
        /\ dec.pc \in {"s2", "exited"}
        /\ ~StepStarted(3)
        /\ outFiles = {}
        /\ dec.pc = "exited" =>
              /\ dec.exit = "exit1"
              /\ LastLine(2, 0)
              /\ Len(dec.err) = 2
              /\ dec.err[1] = "Missing chunks"
              /\ dec.err[2] = MissingIndices

\* an index below total has no chunk while one outside 0..total-1 has: the
\* count of chunks equals total, Buffer.concat throws, no [0] is printed
C5_Witness ==
    /\ Collected
    /\ MissingIndices # {}
    /\ dec.exit = "threw"
    /\ decOut[Len(decOut)] = <<"start", 2>>

\* the fields every payload of a session shares
SessionFields ==
    {"name", "ext", "cipherHash", "kdfParams", "saltB64", "nonceB64", "total",
     "chunkSize", "fileId"}

\* payload m disagrees with payload f on a session field
Disagrees(m, f) ==
    \E k \in SessionFields :
        \/ ObjHas(m, k) # ObjHas(f, k)
        \/ ObjHas(m, k) /\ ObjHas(f, k) /\ ObjGet(m, k) # ObjGet(f, k)

\* C6: conflicting session fields.  A payload that disagrees with the first
\* payload taken on a session field is rejected: the acc map holds no entry
\* with its data, and decode exits with an error in step 1.
C6_Conflict ==
    Collected =>
        LET ps == Taken(listing) IN
        \A k \in 2..Len(ps) :
            Disagrees(ps[k], ps[1]) =>
                /\ \A e \in 1..Len(dec.acc) :
                      (dec.acc[e].key = AccKey(ps[k])
                       /\ dec.acc[e].parts = ObjGet(ps[k], "dataB64"))
                      => \E j \in 1..Len(ps) :
                            /\ ~Disagrees(ps[j], ps[1])
                            /\ AccKey(ps[j]) = AccKey(ps[k])
                            /\ ObjGet(ps[j], "dataB64") = ObjGet(ps[k], "dataB64")
                /\ dec.exit # "returned"
                /\ outFiles = {}

\* a payload that disagrees with the first one was taken into the acc map,
\* and decode returned with a file written
C6_Witness ==
    /\ dec.exit = "returned"
    /\ outFiles # {}
    /\ \E k \in 2..Len(Taken(listing)) :
          /\ Disagrees(Taken(listing)[k], Taken(listing)[1])
          /\ \E e \in 1..Len(dec.acc) :
                /\ dec.acc[e].key = AccKey(Taken(listing)[k])
                /\ dec.acc[e].parts = ObjGet(Taken(listing)[k], "dataB64")

\* C7: order independence.  Whatever order the directory is enumerated in
\* and the workers finish in, the chunk array decode assembles is the one it
\* assembles when the images are enumerated in the directory's own order.
C7_AnyOrder ==
    Collected =>
        dec.chunks = FillChunks(<<>>, CollectAll(Dec0, [k \in 1..Len(dir) |->
                                                          WorkerResult(dir[k])]).acc)

\* the chunk array of the directory's own order has a hash that step 2
\* refuses, and decode in another order returned with a file written
C7_Witness ==
    /\ dec.exit = "returned"
    /\ outFiles # {}
    /\ LET own == FillChunks(<<>>, CollectAll(Dec0, [k \in 1..Len(dir) |->
                                                       WorkerResult(dir[k])]).acc)
       IN  /\ own # dec.chunks
           /\ NoHoles(own)
           /\ Sha256(ConcatChunks(own)) # Val(dec.cipherSha256)

\* C9: sessions are kept apart.  No two entries of the acc map with
\* different fileId fill the same index of the chunk array, and the buffer
\* concatenated in step 2 holds chunks of one fileId only.
C9_FileIds ==
    Collected =>
        /\ \A a, b \in 1..Len(dec.acc) :
              dec.acc[a].key[2] = dec.acc[b].key[2] => dec.acc[a].key[1] = dec.acc[b].key[1]
        /\ Len(dec.encBuffer) > 0 =>
              \A a, b \in 1..Len(dec.acc) : dec.acc[a].key[1] = dec.acc[b].key[1]

\* the chunk of one fileId was overwritten by the chunk of another, which
\* was concatenated with the first one's other chunks
C9_Witness ==
    /\ dec.pc = "exited"
    /\ dec.err = <<"Global sha256 mismatch">>
    /\ \E a, b \in 1..Len(dec.acc) :
          /\ a < b
          /\ dec.acc[a].key[2] = dec.acc[b].key[2]
          /\ dec.acc[a].key[1] # dec.acc[b].key[1]
          /\ dec.chunks[dec.acc[b].key[2]] = B64Decode(dec.acc[b].parts)
          /\ \E c \in 1..Len(dec.acc) :
                /\ dec.acc[c].key[1] = dec.acc[a].key[1]
                /\ dec.acc[c].key[2] # dec.acc[a].key[2]
                /\ dec.chunks[dec.acc[c].key[2]] = B64Decode(dec.acc[c].parts)

(* ------------------------------- C11 ----------------------------------- *)
\* what the collect loop of decode memoizes from payload m alone
Alone(m) == CollectOne(Dec0, [ok |-> TRUE, payload |-> m])

\* C11: session fields.  All payloads queued by one encode run carry the
\* same fileId, name, ext, cipherHash, kdfParams, saltB64, nonceB64, total
\* and chunkSize; every one of them contains kdfParams, saltB64, nonceB64
\* and cipherHash, and from any single payload decode obtains the scrypt
\* parameters, the salt, the nonce and the cipher hash of the run.
C11_SessionFields ==
    enc.pc = "s6" =>
        /\ \A j \in 1..Len(enc.tasks) : \A k \in 1..Len(enc.tasks) :
              \A f \in SessionFields :
                  /\ ObjHas(TaskPayload(j), f) /\ ObjHas(TaskPayload(k), f)
                  /\ ObjGet(TaskPayload(j), f) = ObjGet(TaskPayload(k), f)
        /\ \A k \in 1..Len(enc.tasks) :
              /\ \A f \in {"kdfParams", "saltB64", "nonceB64", "cipherHash"} :
                    ObjHas(TaskPayload(k), f)
              /\ Alone(TaskPayload(k)).kdf = Some(ScryptParams)
              /\ Alone(TaskPayload(k)).salt = Some(enc.salt)
              /\ Alone(TaskPayload(k)).nonce = Some(enc.nonce)
              /\ Alone(TaskPayload(k)).cipherSha256 = Some(Sha256(enc.frame))

\* three payloads or more queued, the last chunk shorter than the others
C11_Witness ==
    /\ enc.pc = "s6"
    /\ Len(enc.tasks) >= 3
    /\ BufLen(TaskBytes(Len(enc.tasks))) < BufLen(TaskBytes(1))

(* ------------------------------- C12 ----------------------------------- *)
\* Buffer.byteLength(text, 'utf8') of the text of task k
PayloadBytes(k) == JsonBytes(TaskPayload(k))

\* C12: one chunk fits one symbol.  When the chunk size is calibrated
\* (CHUNK_SIZE unset), for every ECL, every frame and every chunk index the
\* serialized payload has at most as many bytes as the version-40 symbol of
\* that ECL holds, the 512-byte floor included.
C12_FitsOneSymbol ==
    (enc.pc = "s6" /\ IsNull(chunkEnv)) =>
        \A k \in 1..Len(enc.tasks) : PayloadBytes(k) <= CapacityOf(ecl)

\* the floor raised the chunk size over the calibrated one, and a payload
\* of a full chunk is longer than the symbol's capacity
C12_Witness ==
    /\ enc.pc = "s6" /\ IsNull(chunkEnv)
    /\ enc.chunkSize = ChunkFloor
    /\ (enc.maxDataB64 * 147) \div 200 < ChunkFloor
    /\ BufLen(TaskBytes(1)) = ChunkFloor
    /\ PayloadBytes(1) > CapacityOf(ecl)

(* ------------------------------- C13 ----------------------------------- *)
\* C13: the chunk size.  With CHUNK_SIZE unset the chunk size encode uses is
\* max(512, floor(maxDataB64 * 3/4 * 0.98)), never below 512; with
\* CHUNK_SIZE set it is that value, below 512 or above the calibrated size
\* as it may be.  It is also the chunkSize every payload carries.
C13_ChunkSize ==
    enc.pc \in {"s5", "s6"} =>
        /\ IsNull(chunkEnv) =>
              /\ enc.chunkSize >= 512
              /\ \/ /\ enc.chunkSize = 512
                    /\ 147 * enc.maxDataB64 < 200 * 513
                 \/ /\ 200 * enc.chunkSize <= 147 * enc.maxDataB64
                    /\ 147 * enc.maxDataB64 < 200 * (enc.chunkSize + 1)
        /\ ~IsNull(chunkEnv) => enc.chunkSize = Val(chunkEnv)
        /\ ObjGet(enc.baseMeta, "chunkSize") = enc.chunkSize
        /\ \A k \in 1..Len(enc.tasks) : ObjGet(TaskPayload(k), "chunkSize") = enc.chunkSize

\* CHUNK_SIZE unset and a calibrated size below 512: the floor is used
C13_Witness ==
    /\ enc.pc = "s6" /\ IsNull(chunkEnv)
    /\ 147 * enc.maxDataB64 < 200 * 512
    /\ enc.chunkSize = 512
    /\ Len(enc.tasks) >= 2

(* ------------------------------- C14 ----------------------------------- *)
\* encode has printed, last, the line of step n closed by [ok]
EncLastLine(n, ok) ==
    /\ Len(encOut) >= 2
    /\ encOut[Len(encOut) - 1] = <<"start", n>>
    /\ encOut[Len(encOut)] = <<"done", ok>>

\* step 4 has built baseMeta, and the payload without data has at least as
\* many bytes as a symbol of the ECL holds
NoRoom ==
    /\ Len(enc.baseMeta) > 0
    /\ Overhead(ObjSet(enc.baseMeta, "chunkSize", 0)) >= CapacityOf(ecl)

\* C14: no capacity.  If the overhead of the payload without data is at
\* least the capacity of the ECL, encode fails in step 4 with [0], whatever
\* CHUNK_SIZE says, and queues and renders no chunk.
C14_NoCapacity ==
    NoRoom =>
        /\ enc.pc = "threw"
        /\ EncLastLine(4, 0)
        /\ enc.tasks = <<>>
        /\ dir = <<>>

\* the empirical encoder with no room at all: step 4 was closed with [1],
\* the chunk size is the floor and step 5 has queued payloads
C14_Witness ==
    /\ NoRoom
    /\ calibrator = "empirical" /\ IsNull(chunkEnv)
    /\ enc.maxDataB64 = 0
    /\ enc.chunkSize = ChunkFloor
    /\ \E i \in 1..(Len(encOut) - 1) : encOut[i] = <<"start", 4>> /\ encOut[i + 1] = <<"done", 1>>
    /\ enc.pc = "s6"
    /\ Len(enc.tasks) >= 1

(* ------------------------------- C15 ----------------------------------- *)
\* C15: the temporary directory.  The directory encode creates in step 2
\* exists no more when encode has returned, nor when encode has ended with
\* a failure in a later step.
C15_TempRemoved ==
    enc.pc \in {"done", "threw"} => ~enc.tmpRoot

\* encode has returned after all seven steps and the directory is there
C15_Witness ==
    /\ enc.pc = "done"
    /\ enc.fail = 0
    /\ Len(dir) >= 1
    /\ enc.tmpRoot

(* ------------------------------- C16 ----------------------------------- *)
\* every step line of out that was started is closed by one [1] or [0]
AllClosed(out) ==
    /\ \A i \in 1..Len(out) :
          out[i][1] = "start" => (i < Len(out) /\ out[i + 1][1] = "done")
    /\ \A i \in 1..Len(out) :
          out[i][1] = "done" => (i > 1 /\ out[i - 1][1] = "start")

\* the last line of out is a step closed by [0]
FailedLine(out) == Len(out) >= 2 /\ out[Len(out)] = <<"done", 0>>

\* C16: step lines.  A run of encode or of decode that ends in a fatal
\* error has printed [0] for the step in which the error occurred, and every
\* step line started is completed by exactly one [1] or [0].
C16_StepLines ==
    /\ enc.pc \in {"done", "threw"} => AllClosed(encOut)
    /\ enc.pc = "threw" => FailedLine(encOut)
    /\ dec.pc = "exited" => AllClosed(decOut)
    /\ (dec.pc = "exited" /\ dec.exit # "returned") => FailedLine(decOut)

\* encode of a path that does not exist: statSync threw in step 2 and the
\* line of step 2 is left open
C16_Witness ==
    /\ src.kind = "missing"
    /\ enc.pc = "threw"
    /\ encOut[Len(encOut)] = <<"start", 2>>

(* ------------------------------- C17 ----------------------------------- *)
\* encode has printed the summary of step 7
SummaryPrinted == \E i \in 1..Len(encOut) : encOut[i][1] = "summary"

\* the pool of step 6 is over
Rendered == \E i \in 1..Len(encOut) : encOut[i] = <<"start", 6>>

\* C17: render failures.  If at least one render job failed, encode has
\* printed [0] for step 6 and rejected, and prints no summary and returns no
\* result; if none failed it has printed [1] for step 6.  The jobs counted
\* as failed are those whose image is not in the directory.
C17_RenderFailure ==
    Rendered =>
        /\ Len(dir) = Len(enc.tasks) - enc.fail + copies
        /\ enc.fail > 0 =>
              /\ enc.pc = "threw"
              /\ EncLastLine(6, 0)
              /\ ~SummaryPrinted
              /\ IsNull(enc.result)
        /\ enc.fail = 0 =>
              /\ enc.pc \in {"s7", "done"}
              /\ \E i \in 1..(Len(encOut) - 1) :
                    encOut[i] = <<"start", 6>> /\ encOut[i + 1] = <<"done", 1>>

\* one render job of several failed: [0] for step 6, encode rejected
C17_Witness ==
    /\ Len(enc.tasks) >= 2
    /\ enc.fail = 1
    /\ Len(dir) = Len(enc.tasks) - 1
    /\ enc.pc = "threw"
    /\ EncLastLine(6, 0)

(* ------------------------------- C18 ----------------------------------- *)
\* the extension chosen for bytes that come without one: the one their
\* magic number tells, else .bin
DotBin == <<".", "b", "i", "n">>
GuessedExt(data) ==
    IF Len(detectExtByMagic(ReadHead(data))) > 0 THEN detectExtByMagic(ReadHead(data))
    ELSE DotBin

\* the directory holds a complete session whose payloads carry no ext
NoExtDir ==
    \E cs \in {AdvChunk3, AdvChunk2} :
        dir = Symbols([k \in 1..Len(SessionA(cs)) |-> ObjDel(SessionA(cs)[k], "ext")])

\* C18: the output name.  When decode succeeds it has written exactly one
\* file, named the payloads' name followed by the payloads' ext; when the
\* payloads carry no ext, decode succeeds all the same (the password being
\* right) and the extension is the one detected from the decrypted bytes,
\* or .bin.
C18_OutputName ==
    /\ dec.exit = "returned" =>
          \E f \in outFiles :
              /\ outFiles = {f}
              /\ f.name = Val(dec.nameBase) \o
                              (IF IsNull(dec.metaExt) THEN GuessedExt(f.data)
                               ELSE Val(dec.metaExt))
    /\ (NoExtDir /\ dec.pc = "exited" /\ dec.typed \in {Null, Some(<<PwA>>)}) =>
          /\ dec.exit = "returned"
          /\ \E f \in outFiles : f.name = NameBaseOf(SourceA) \o GuessedExt(SourceA.data)

\* payloads without ext, complete and intact: decode stopped in step 3
\* before asking for the password, and wrote nothing
C18_Witness ==
    /\ NoExtDir
    /\ dec.pc = "exited" /\ dec.exit = "exit1"
    /\ dec.err = <<"Meta name/ext missing.">>
    /\ LastLine(3, 0)
    /\ IsNull(dec.typed)
    /\ outFiles = {}

(* ------------------------------- C19 ----------------------------------- *)
\* C19: name round trip.  For a regular file with base name B, with an
\* extension or without, with one dot or several, decode of the symbols
\* encode produced writes a file named exactly B.
C19_NameRoundTrip ==
    (src.kind = "file" /\ dec.exit = "returned") =>
        \E f \in outFiles : outFiles = {f} /\ f.name = src.base

\* a file without extension whose bytes start with %PDF: encode recorded
\* the detected extension, decode wrote the name with .pdf appended
C19_Witness ==
    /\ src.base = <<"b">>
    /\ src.data = MagicPdf
    /\ enc.metaExt = <<".", "p", "d", "f">>
    /\ dec.exit = "returned"
    /\ outFiles = {[name |-> <<"b", ".", "p", "d", "f">>, data |-> src.data]}

(* ------------------------------- C20 ----------------------------------- *)
\* one of the passwords supplied to encode has fewer than 8 characters
ShortSupplied ==
    \E i \in 1..Len(EncPasswords) : Len(EncPasswords[i]) < MinPasswordLen

\* C20: short passwords.  When a password supplied to encode, typed at the
\* prompt or passed as the passwords argument, is shorter than 8, encode
\* does not get past step 1: it fails there with [0], derives no key and
\* encrypts nothing.
C20_ShortPassword ==
    ShortSupplied =>
        /\ enc.pc = "s1" \/ (enc.pc = "threw" /\ EncLastLine(1, 0))
        /\ enc.passphrase = <<>>
        /\ enc.frame = <<>>

\* a password of 7 characters passed as the argument: step 1 printed [1],
\* the key was derived from it and the file encrypted and queued
C20_Witness ==
    /\ call.passwords = <<PwShort>>
    /\ src.kind = "file"
    /\ enc.pc = "s6"
    /\ encOut[1] = <<"start", 1>> /\ encOut[2] = <<"done", 1>>
    /\ enc.frame = EncryptFrame(Scrypt(PwShort, enc.salt, ScryptParams), enc.nonce, src.data)
    /\ Len(enc.tasks) >= 1

(* ------------------------------- C21 ----------------------------------- *)
\* decode has derived its key: step 3 got past the password
KeyDerived ==
    /\ ~IsNull(dec.typed)
    /\ PromptOk(Val(dec.typed))
    /\ ~IsNull(dec.kdf)

\* C21: one passphrase.  Encode derives its key from the passwords joined
\* by one NUL; decode called with a password list derives its key from
\* that list joined by one NUL, so that decode called with the list encode
\* was called with decrypts.
C21_SamePassphrase ==
    /\ enc.pc \in {"s2", "s3", "s4", "s5", "s6", "s7", "done"} =>
          enc.passphrase = JoinNul(EncPasswords)
    /\ (Len(decArgs) > 0 /\ KeyDerived) =>
          JoinNul(Val(dec.typed)) = JoinNul(decArgs)
    /\ (Len(decArgs) > 0 /\ decArgs = EncPasswords /\ KeyDerived /\ dec.pc = "exited") =>
          dec.exit = "returned"

\* decode called with the list encode was called with, another password
\* typed at the prompt: the key came from what was typed, decryption failed
C21_Witness ==
    /\ call.passwords = <<PwA, PwB>>
    /\ decArgs = <<PwA, PwB>>
    /\ dec.typed = Some(<<PwB>>)
    /\ dec.exit = "exit1"
    /\ dec.err = <<"Decryption failed. Wrong password or corrupted data.">>
    /\ LastLine(3, 0)

(* ------------------------------- C22 ----------------------------------- *)
\* an image with no symbol, or whose text is not JSON, or whose payload has
\* no type GitZipQR-CHUNK-ENC
IsJunk(img) ==
    \/ ~img.qr
    \/ ~IsJson(img.text)
    \/ ~ObjHas(ParseJson(img.text), "type")
    \/ ObjGet(ParseJson(img.text), "type") # FRAGMENT_TYPE

\* images without the junk among them, in the same order
Clean(images) == LET Keep(img) == ~IsJunk(img) IN SelectSeq(images, Keep)

\* what the collect loop makes of the images alone
CollectedFrom(images) ==
    CollectAll(Dec0, [k \in 1..Len(images) |-> WorkerResult(images[k])])

\* the directory holds junk, and the other images are the symbols of one
\* complete session
JunkAndComplete ==
    /\ \E k \in 1..Len(dir) : IsJunk(dir[k])
    /\ \E cs \in {AdvChunk3, AdvChunk2} :
          /\ Len(Clean(dir)) = Len(SessionA(cs))
          /\ {Clean(dir)[k] : k \in 1..Len(Clean(dir))} =
                {Symbol(SessionA(cs)[k]) : k \in 1..Len(SessionA(cs))}

\* C22: junk is dropped.  An image in which no symbol is recognised, or
\* whose text is not JSON, or whose payload is not of type
\* GitZipQR-CHUNK-ENC leaves the chunk map and the memoized session fields
\* as they are without it, and decode of a complete set with junk beside it
\* restores the file.
C22_JunkDropped ==
    /\ Collected =>
          /\ dec.acc = CollectedFrom(Clean(listing)).acc
          /\ dec.nameBase = CollectedFrom(Clean(listing)).nameBase
          /\ dec.metaExt = CollectedFrom(Clean(listing)).metaExt
          /\ dec.cipherSha256 = CollectedFrom(Clean(listing)).cipherSha256
          /\ dec.kdf = CollectedFrom(Clean(listing)).kdf
          /\ dec.salt = CollectedFrom(Clean(listing)).salt
          /\ dec.nonce = CollectedFrom(Clean(listing)).nonce
          /\ dec.expectedTotal = CollectedFrom(Clean(listing)).expectedTotal
    /\ (JunkAndComplete /\ dec.pc = "exited" /\ dec.typed = Some(<<PwA>>)) =>
          /\ dec.exit = "returned"
          /\ outFiles = {[name |-> SourceA.base, data |-> SourceA.data]}

\* a payload of another type, with a name and data of its own, listed
\* before the symbols of the session: decode restored the file
C22_Witness ==
    /\ JunkAndComplete
    /\ dec.pc = "exited"
    /\ listing[1].qr /\ IsJson(listing[1].text)
    /\ ObjHas(ParseJson(listing[1].text), "type")
    /\ ObjGet(ParseJson(listing[1].text), "type") = "other"
    /\ dec.nameBase = Some(NameBaseOf(SourceA))
    /\ dec.exit = "returned"
    /\ outFiles = {[name |-> SourceA.base, data |-> SourceA.data]}

(* ------------------------------- C23 ----------------------------------- *)
\* the payload of an image read as JSON carries the version of this format
VersionOk(m) == ObjHas(m, "version") /\ ObjGet(m, "version") = VERSION

\* the payloads of the listing that carry another version string
OtherVersion ==
    {k \in 1..Len(listing) :
        /\ listing[k].qr /\ IsJson(listing[k].text)
        /\ ~VersionOk(ParseJson(listing[k].text))}

\* C23: type and version.  Decode uses a payload only if its type is
\* GitZipQR-CHUNK-ENC and its version is 3.1-inline-only: a payload with
\* another version string puts no data into the chunk map.
C23_VersionChecked ==
    Collected =>
        \A k \in OtherVersion :
            \A i \in 1..Len(dec.acc) :
                dec.acc[i].parts # ObjGet(ParseJson(listing[k].text), "dataB64")

\* chunk 0 of the session says version 2.0: its data is in the chunk map
\* and in the file decode restored
C23_Witness ==
    /\ dec.exit = "returned"
    /\ \E k \in OtherVersion :
          /\ ObjGet(ParseJson(listing[k].text), "version") = "2.0"
          /\ ObjGet(ParseJson(listing[k].text), "chunk") = 0
          /\ \E i \in 1..Len(dec.acc) :
                dec.acc[i].parts = ObjGet(ParseJson(listing[k].text), "dataB64")
    /\ outFiles = {[name |-> SourceA.base, data |-> SourceA.data]}

(* ------------------------------- C24 ----------------------------------- *)
\* the keys of a payload text, in the order they are written
KeysOf(text) == [j \in 1..(Len(text) \div 2) |-> text[2 * j - 1]]

\* C24: key order.  Every payload text encode queues lists its keys in the
\* order type, version, fileId, name, ext, chunk, total, hash, cipherHash,
\* dataB64, kdfParams, saltB64, nonceB64, chunkSize.
C24_KeyOrder ==
    enc.pc = "s6" =>
        \A k \in 1..Len(enc.tasks) :
            KeysOf(enc.tasks[k].text) =
                <<"type", "version", "fileId", "name", "ext", "chunk", "total", "hash",
                  "cipherHash", "dataB64", "kdfParams", "saltB64", "nonceB64", "chunkSize">>

\* the analytical encoder: dataB64 is the last key, after chunkSize
C24_Witness ==
    /\ enc.pc = "s6"
    /\ calibrator = "analytical"
    /\ Len(enc.tasks) >= 2
    /\ \A k \in 1..Len(enc.tasks) :
          KeysOf(enc.tasks[k].text) =
              <<"type", "version", "fileId", "name", "ext", "chunk", "total", "hash",
                "cipherHash", "kdfParams", "saltB64", "nonceB64", "chunkSize", "dataB64">>

(* ------------------------------- C25 ----------------------------------- *)
\* the fragment files of dir, and its manifest.json
FragmentFiles ==
    SelectSeq(dir, LAMBDA f : ~IsImageFile(f) /\ f.file[Len(f.file) - 2] = "bin")
ManifestFiles ==
    SelectSeq(dir, LAMBDA f : ~IsImageFile(f) /\ f.file[Len(f.file) - 2] = "manifest")

\* inputPath is a directory that holds fragments and a manifest, no image
FragmentDir ==
    /\ IsNull(legacy)
    /\ Len(FragmentFiles) > 0 /\ Len(ManifestFiles) = 1
    /\ Len(SelectSeq(dir, IsImageFile)) = 0

\* step 1 has ended with [1]
StepOnePassed == Len(decOut) >= 2 /\ decOut[1] = <<"start", 1>> /\ decOut[2] = <<"done", 1>>

\* the session fields are those of manifest m, each under either name
ReadFrom(m) ==
    /\ dec.expectedTotal = Either(m, "totalChunks", "total_chunks")
    /\ dec.cipherSha256 = Either(m, "cipherSha256", "cipher_sha256")
    /\ dec.kdf = Either(m, "kdfParams", "kdf_params")
    /\ dec.salt = Some(B64Decode(Val(Either(m, "saltB64", "salt_b64"))))
    /\ dec.nonce = Some(B64Decode(Val(Either(m, "nonceB64", "nonce_b64"))))

\* C25: legacy path.  For an input directory that holds *.bin.json fragments
\* and a manifest.json, decode does not stop for want of QR images: step 1
\* ends with [1], the chunk array holding the data of every fragment and the
\* kdf parameters, salt, nonce, total and cipher hash being those of the
\* manifest, read under the camelCase or else the snake_case name.  The same
\* reading holds when the legacy path is taken for a single fragment file.
C25_LegacyPath ==
    /\ (FragmentDir /\ dec.pc # "idle") =>
          /\ dec.err # <<"Directory has no QR images.">>
          /\ StepOnePassed
          /\ ReadFrom(ManifestFiles[1].json)
          /\ \A k \in 1..Len(FragmentFiles) :
                LET f == FragmentFiles[k].json IN
                /\ ObjGet(f, "chunk") \in DOMAIN dec.chunks
                /\ dec.chunks[ObjGet(f, "chunk")] = B64Decode(ObjGet(f, "data"))
    /\ (~IsNull(legacy) /\ StepOnePassed) => ReadFrom(Val(Val(legacy).manifest))

\* a directory of fragments with a snake_case manifest: decode has ended
\* step 1 with [0] and left, no manifest field read
C25_Witness ==
    /\ FragmentDir
    /\ Len(FragmentFiles) = 2
    /\ ObjHas(ManifestFiles[1].json, "salt_b64")
    /\ dec.exit = "exit1"
    /\ dec.err = <<"Directory has no QR images.">>
    /\ LastLine(1, 0)
    /\ IsNull(dec.salt) /\ dec.chunks = <<>>

\* the legacy path taken for one fragment file with a snake_case manifest:
\* every field read, the file restored
C25_FileWitness ==
    /\ ~IsNull(legacy)
    /\ ~IsNull(Val(legacy).manifest)
    /\ ObjHas(Val(Val(legacy).manifest), "salt_b64")
    /\ ObjHas(Val(Val(legacy).manifest), "kdf_params")
    /\ ReadFrom(Val(Val(legacy).manifest))
    /\ dec.exit = "returned"
    /\ \E f \in outFiles : f.data = SourceA.data

(* ------------------------------- C26 ----------------------------------- *)
\* the tasks of runPool whose worker has raised an event
Completed == {k \in 1..encPool.total : encPool.ev[k] # <<>>}
\* those whose first event was not the message { ok: true }
Failed == {k \in Completed : encPool.ev[k][1] # "ok"}

\* C26: no abort.  In runPool no task is handed to a worker twice, the tasks
\* launched are exactly the first i, and when the pool resolves every task
\* has been launched once and has completed, the value { ok, fail } counting
\* the tasks that did not fail and those that did: ok + fail = tasks.length.
C26_NoAbort ==
    encPool.on =>
      /\ \A k \in 1..encPool.total :
            encPool.launched[k] = (IF k <= encPool.i THEN 1 ELSE 0)
      /\ encPool.resolves > 0 =>
            /\ Completed = 1..encPool.total
            /\ \A k \in 1..encPool.total : encPool.launched[k] = 1
            /\ Val(encPool.value).fail = Cardinality(Failed)
            /\ Val(encPool.value).ok + Val(encPool.value).fail = encPool.total

\* three tasks on two workers: the first worker raised an error while the
\* third task was still waiting; the pool resolved with { ok: 2, fail: 1 }
C26_Witness ==
    /\ encPool.on /\ encPool.total = MaxTasks /\ encPool.W = 2
    /\ encPool.resolves = 1
    /\ encPool.ev[1] = <<"error">>
    /\ encPool.ev[2][1] = "ok" /\ encPool.ev[3][1] = "ok"
    /\ encPool.value = Some([ok |-> 2, fail |-> 1])

(* ------------------------------- C27 ----------------------------------- *)
\* C27: bounded pools.  In runPool and in runDecodePool, whatever events the
\* workers raise and in whatever order, a worker raising an error after
\* its message included, active stays within 0..MAX_WORKERS and resolve is
\* called at most once.
C27_ActiveBounded ==
    /\ encPool.on =>
          /\ 0 <= encPool.active /\ encPool.active <= encPool.W
          /\ encPool.resolves <= 1
    /\ decPool.on =>
          /\ 0 <= decPool.active /\ decPool.active <= decPool.W
          /\ decPool.resolves <= 1

\* two images on two workers: the first worker posted its message and
\* then raised an error, which took active to 0 and resolved the pool, the
\* second worker still at work with no result stored; its message then
\* took active below 0
C27_Witness ==
    /\ decPool.on /\ decPool.total = 2 /\ decPool.W = 2
    /\ decPool.ev[1] = <<"ok", "error">>
    /\ decPool.ev[2] = <<"ok">>
    /\ decPool.resolves = 1
    /\ decPool.value = Some(<<Some("error"), Null>>)
    /\ decPool.active < 0

\* one worker allowed, three images: after the message and the error of the
\* first worker the second and the third are at work together
C27_OverLaunch ==
    /\ decPool.on /\ decPool.total = 3 /\ decPool.W = 1
    /\ decPool.ev = << <<"ok", "error">>, <<>>, <<>> >>
    /\ decPool.launched = <<1, 1, 1>>
    /\ decPool.active = 1

(* ------------------------------- C28 ----------------------------------- *)
\* encode has printed the end of step 6
Step6Ended ==
    \E j \in 1..(Len(encOut) - 1) : encOut[j] = <<"start", 6>> /\ encOut[j + 1][1] = "done"

\* C28: the barrier is passed.  When every launched worker eventually posts
\* a message or raises an error, an encode that has reached step 6, of the
\* empty file as of any other, has at least one task, its runPool resolves
\* and step 6 ends; and runDecodePool, called on a directory with at least
\* one image, resolves.
C28_BarrierPassed ==
    /\ (enc.pc = "s6") ~>
          (/\ encPool.on /\ encPool.total >= 1
           /\ encPool.resolves > 0
           /\ enc.pc \in {"s7", "threw"}
           /\ Step6Ended)
    /\ (enc.pc = "none" /\ Len(dir) > 0) ~> (decPool.on /\ decPool.resolves > 0)

\* the empty file: a frame of the 16 bytes of the tag, cut into three
\* tasks; one worker failed, the pool resolved and step 6 ended with [0]
C28_Witness ==
    /\ src.data = <<>>
    /\ BufLen(enc.frame) = TagLen
    /\ Len(enc.tasks) = MaxTasks /\ encPool.total = MaxTasks
    /\ encPool.value = Some([ok |-> 2, fail |-> 1])
    /\ enc.pc = "threw"
    /\ Step6Ended /\ encOut[Len(encOut)] = <<"done", 0>>

\* three images: the pool of the decoder has resolved with a result for each
C28_DecWitness ==
    /\ decPool.on /\ decPool.total = 3
    /\ decPool.resolves = 1
    /\ \A k \in 1..3 : ~IsNull(Val(decPool.value)[k])

(* ------------------------------- C29 ----------------------------------- *)
\* every step line of out but the first follows the [1] of the step before
InOrder(out) ==
    \A i \in 1..Len(out) :
        out[i][1] = "start" =>
            \/ i = 1 /\ out[i][2] = 1
            \/ i > 2 /\ out[i - 1] = <<"done", 1>> /\ out[i - 2] = <<"start", out[i][2] - 1>>

\* a [0] is the last thing printed
EndsAtFail(out) == \A i \in 1..Len(out) : out[i] = <<"done", 0>> => i = Len(out)

\* out holds the [0] of a step in 1..n
FailedUpTo(out, n) ==
    \E i \in 2..Len(out) : out[i] = <<"done", 0>> /\ out[i - 1][2] <= n

\* C29: step order.  encode prints its steps in the order 1..6 and then the
\* summary, decode in the order 1..4; a step starts only right after the [1]
\* of the step before it; nothing is printed after a [0]; encode has written
\* no QR image when one of its steps 1 to 5 printed [0], and decode has
\* written no file when one of its steps printed [0].
C29_StepOrder ==
    /\ InOrder(encOut) /\ InOrder(decOut)
    /\ EndsAtFail(encOut) /\ EndsAtFail(decOut)
    /\ \A i \in 1..Len(encOut) :
          encOut[i][1] = "summary" =>
              i = Len(encOut) /\ i > 2 /\ encOut[i - 1] = <<"done", 1>>
              /\ encOut[i - 2] = <<"start", 6>>
    /\ Len(dir) > 0 => \E i \in 1..Len(encOut) : encOut[i] = <<"start", 6>>
    /\ FailedUpTo(encOut, 5) => Len(dir) = 0
    /\ outFiles # {} => LastLine(4, 1)
    /\ FailedUpTo(decOut, 4) => outFiles = {}

\* encode ran its seven steps; the decode that followed failed in step 3 on
\* a wrong password, printed [0] and wrote nothing
C29_Witness ==
    /\ enc.pc = "done"
    /\ Len(encOut) = 13 /\ encOut[13][1] = "summary"
    /\ dec.exit = "exit1"
    /\ decOut = <<<<"start", 1>>, <<"done", 1>>, <<"start", 2>>, <<"done", 1>>,
                 <<"start", 3>>, <<"done", 0>>>>
    /\ outFiles = {}

(* ------------------------------- C30 ----------------------------------- *)
\* the calibration has returned
Calibrated == cal.pc = "done"

\* C30, as stated: calibration.  For a monotone predicate that holds at 1
\* and whose largest fitting n is limit, the doubling and the binary search
\* end within TestBudget tests and return floor(0.92 * limit), lo being an n
\* that fits.
C30_Calibrated ==
    /\ cal.tests <= TestBudget
    /\ Calibrated => /\ cal.result = (cal.limit * 23) \div 25
                     /\ cal.lo <= cal.limit

\* C30, amended: the same for limit <= 2 * GrowCap, the hi at which the
\* doubling stops; for a larger limit the result is floor(0.92 * 2 * GrowCap).
\* Throughout lo fits, and lo is 1, which fits by hypothesis and is never
\* tested, or an n for which test returned true.
C30_CalibratedBelowCap ==
    /\ cal.tests <= TestBudget
    /\ cal.pc # "off" =>
          /\ cal.lo <= cal.limit
          /\ cal.lo = 1 \/ cal.lo \in cal.passed
    /\ Calibrated => /\ cal.lo = Min(cal.limit, 2 * GrowCap)
                     /\ cal.result = (cal.lo * 23) \div 25

\* a predicate that still holds above the last hi: the search ended at
\* 2 * GrowCap, which was tested and fits, and 0.92 of it was returned
C30_Witness ==
    /\ Calibrated
    /\ cal.limit = 2 * GrowCap + 1
    /\ cal.lo = 2 * GrowCap /\ cal.lo \in cal.passed
    /\ cal.result = (2 * GrowCap * 23) \div 25
    /\ cal.result # (cal.limit * 23) \div 25

\* a predicate whose largest fitting n lies between two doublings
C30_InnerWitness ==
    /\ Calibrated
    /\ cal.limit = 3 * GrowStart
    /\ cal.lo = cal.limit /\ cal.lo \in cal.passed
    /\ cal.result = (cal.limit * 23) \div 25

=============================================================================
